---------------------------- MODULE Spec2Model ----------------------------
(***************************************************************************)
(* A model of the struct-tag-driven environment parser of lindenlab/env    *)
(* (src/env.go).  Strings are sequences of one-character strings; the      *)
(* literal fragments of formatted messages are kept as single tokens, so   *)
(* that a contiguous sub-sequence of a modelled message is a substring of  *)
(* the real message.                                                       *)
(***************************************************************************)
EXTENDS Integers, Sequences, FiniteSets, TLC

VARIABLES env, dst, OnEnvVarSet, DebugLogger, last, nops

vars == <<env, dst, OnEnvVarSet, DebugLogger, last, nops>>

(***************************************************************************)
(* Bounds of the model.                                                    *)
(***************************************************************************)
\* the number of steps of one behaviour: calls of the package's functions
\* and assignments to OnEnvVarSet
MaxOps == 3

\* the longest string an initial environment holds under a slice field's key
MaxLen == 3

\* the longest collection of errors of every shape
MaxErrs == 3

\* the longest collection of equal errors
MaxRun == 11

(***************************************************************************)
(* Strings.                                                                *)
(***************************************************************************)
\* strings.HasSuffix
HasSuffix(s, suffix) ==
  /\ Len(s) >= Len(suffix)
  /\ SubSeq(s, Len(s) - Len(suffix) + 1, Len(s)) = suffix

\* strings.Contains
Contains(s, sub) ==
  \E i \in 1..(Len(s) - Len(sub) + 1) : SubSeq(s, i, i + Len(sub) - 1) = sub

\* fmt's %q of a string without characters that need escaping
Quote(s) == <<"\"">> \o s \o <<"\"">>

Digits == <<"0", "1", "2", "3", "4", "5", "6", "7", "8", "9">>

IsDigit(c) == \E d \in 1..10 : Digits[d] = c

DigitVal(c) == (CHOOSE d \in 1..10 : Digits[d] = c) - 1

RECURSIVE Itoa(_)
\* fmt's %d of a non-negative integer
Itoa(n) == IF n < 10 THEN <<Digits[n + 1]>> ELSE Itoa(n \div 10) \o <<Digits[(n % 10) + 1]>>

(***************************************************************************)
(* Errors.  An error is a record with a kind; ParseErrors holds a sequence *)
(* of errors, a %w-wrapped error holds the error it wraps.                 *)
(***************************************************************************)
NoErr == [kind |-> "nil"]

ErrNotAStructPtr == [kind |-> "ErrNotAStructPtr", msg |-> <<"expected a pointer to a Struct">>]

ErrUnsupportedType == [kind |-> "ErrUnsupportedType", msg |-> <<"type is not supported">>]

ErrUnsupportedSliceType == [kind |-> "ErrUnsupportedSliceType", msg |-> <<"unsupported slice type">>]

\* a *strconv.NumError
NumError(func, s, why) ==
  [kind |-> "NumError",
   msg  |-> <<"strconv.", func, ": parsing ">> \o Quote(s) \o <<": ", why>>]

RECURSIVE ErrorString(_)
RECURSIVE JoinNumbered(_, _)
RECURSIVE JoinNumbered_FromZero(_, _)
\* the lines numbered from 0
JoinNumbered_FromZero(pe, i) ==
  IF i > Len(pe) THEN <<>>
  ELSE <<"\n  ">> \o Itoa(i - 1) \o <<". ">> \o ErrorString(pe[i])
       \o JoinNumbered_FromZero(pe, i + 1)

\* the numbered lines of ParseErrors.Error, from entry i on
JoinNumbered(pe, i) ==
  IF i > Len(pe) THEN <<>>
  ELSE <<"\n  ">> \o Itoa(i) \o <<". ">> \o ErrorString(pe[i]) \o JoinNumbered(pe, i + 1)

\* error.Error(); for ParseErrors the method of env.go
ErrorString(e) ==
  IF e.kind = "ParseErrors"
  THEN IF Len(e.errs) = 0 THEN <<>>
       ELSE IF Len(e.errs) = 1 THEN ErrorString(e.errs[1])
       ELSE <<"multiple parsing errors (">> \o Itoa(Len(e.errs)) \o <<"):">>
            \o JoinNumbered(e.errs, 1)
  ELSE e.msg

\* the value of type ParseErrors holding the entries pe
ParseErrors(pe) == [kind |-> "ParseErrors", errs |-> pe]

\* fmt.Errorf("field '%s' in %s: %w", currentPath, structType.Name(), err)
FieldError(currentPath, structName, err) ==
  [kind |-> "field",
   msg  |-> <<"field '">> \o currentPath \o <<"' in ">> \o structName \o <<": ">>
            \o ErrorString(err),
   path |-> currentPath,
   err  |-> err]

(***************************************************************************)
(* strconv.                                                                *)
(***************************************************************************)
TrueStrings ==
  { <<"1">>, <<"t">>, <<"T">>, <<"T", "R", "U", "E">>, <<"t", "r", "u", "e">>,
    <<"T", "r", "u", "e">> }

FalseStrings ==
  { <<"0">>, <<"f">>, <<"F">>, <<"F", "A", "L", "S", "E">>, <<"f", "a", "l", "s", "e">>,
    <<"F", "a", "l", "s", "e">> }

\* strconv.ParseBool
ParseBool(s) ==
  IF s \in TrueStrings THEN [b |-> TRUE, err |-> NoErr]
  ELSE IF s \in FalseStrings THEN [b |-> FALSE, err |-> NoErr]
  ELSE [b |-> FALSE, err |-> NumError("ParseBool", s, "invalid syntax")]

RECURSIVE StripZeros(_)
\* a digit string without its leading zeros ("0" for zero)
StripZeros(ds) ==
  IF Len(ds) > 1 /\ ds[1] = "0" THEN StripZeros(Tail(ds)) ELSE ds

RECURSIVE LexLeq(_, _)
\* a <= b for digit strings of the same length
LexLeq(a, b) ==
  IF Len(a) = 0 THEN TRUE
  ELSE IF DigitVal(a[1]) < DigitVal(b[1]) THEN TRUE
  ELSE IF DigitVal(a[1]) > DigitVal(b[1]) THEN FALSE
  ELSE LexLeq(Tail(a), Tail(b))

\* a <= b for digit strings without leading zeros
MagLeq(a, b) == Len(a) < Len(b) \/ (Len(a) = Len(b) /\ LexLeq(a, b))

\* 2^32 - 1 and 2^64 - 1
MaxUint(bitSize) ==
  IF bitSize = 32 THEN <<"4", "2", "9", "4", "9", "6", "7", "2", "9", "5">>
  ELSE <<"1", "8", "4", "4", "6", "7", "4", "4", "0", "7", "3", "7", "0", "9", "5", "5",
         "1", "6", "1", "5">>

\* 2^31 - 1 and 2^63 - 1
MaxInt(bitSize) ==
  IF bitSize = 32 THEN <<"2", "1", "4", "7", "4", "8", "3", "6", "4", "7">>
  ELSE <<"9", "2", "2", "3", "3", "7", "2", "0", "3", "6", "8", "5", "4", "7", "7", "5",
         "8", "0", "7">>

\* 2^31 and 2^63, the magnitude of the least value
MinIntMag(bitSize) ==
  IF bitSize = 32 THEN <<"2", "1", "4", "7", "4", "8", "3", "6", "4", "8">>
  ELSE <<"9", "2", "2", "3", "3", "7", "2", "0", "3", "6", "8", "5", "4", "7", "7", "5",
         "8", "0", "8">>

AllDigits(s) == Len(s) > 0 /\ \A i \in 1..Len(s) : IsDigit(s[i])

\* ParseUint at 64 bits, whatever the width asked for
ParseUint_Wide(s, bitSize) ==
  IF ~AllDigits(s)
  THEN [n |-> <<"0">>, err |-> NumError("ParseUint", s, "invalid syntax")]
  ELSE IF ~MagLeq(StripZeros(s), MaxUint(64))
  THEN [n |-> MaxUint(64), err |-> NumError("ParseUint", s, "value out of range")]
  ELSE [n |-> StripZeros(s), err |-> NoErr]

\* strconv.ParseUint(s, 10, bitSize): digits only, no sign.  A number is kept
\* as its canonical decimal string, whatever its width.
ParseUint(s, bitSize) ==
  IF ~AllDigits(s)
  THEN [n |-> <<"0">>, err |-> NumError("ParseUint", s, "invalid syntax")]
  ELSE IF ~MagLeq(StripZeros(s), MaxUint(bitSize))
  THEN [n |-> MaxUint(bitSize), err |-> NumError("ParseUint", s, "value out of range")]
  ELSE [n |-> StripZeros(s), err |-> NoErr]

\* strconv.ParseInt(s, 10, bitSize): an optional sign, then digits
ParseInt(s, bitSize) ==
  LET signed == Len(s) > 0 /\ s[1] \in {"+", "-"}
      neg    == signed /\ s[1] = "-"
      body   == IF signed THEN Tail(s) ELSE s
      mag    == StripZeros(body)
  IN  IF ~AllDigits(body)
      THEN [n |-> <<"0">>, err |-> NumError("ParseInt", s, "invalid syntax")]
      ELSE IF ~neg /\ ~MagLeq(mag, MaxInt(bitSize))
      THEN [n |-> MaxInt(bitSize), err |-> NumError("ParseInt", s, "value out of range")]
      ELSE IF neg /\ ~MagLeq(mag, MinIntMag(bitSize))
      THEN [n |-> <<"-">> \o MinIntMag(bitSize),
            err |-> NumError("ParseInt", s, "value out of range")]
      ELSE [n |-> IF neg /\ mag # <<"0">> THEN <<"-">> \o mag ELSE mag, err |-> NoErr]

(***************************************************************************)
(* os: the process environment is a function from the names that are set   *)
(* to their values.                                                        *)
(***************************************************************************)
\* os.LookupEnv
LookupEnv(e, key) ==
  IF key \in DOMAIN e THEN [value |-> e[key], found |-> TRUE]
  ELSE [value |-> <<>>, found |-> FALSE]

\* os.Getenv
Getenv(e, key) == LookupEnv(e, key).value

\* os.Setenv
Setenv(e, key, value) == [k \in (DOMAIN e) \cup {key} |-> IF k = key THEN value ELSE e[k]]

\* os.Unsetenv
Unsetenv(e, key) == [k \in (DOMAIN e) \ {key} |-> e[k]]

UpperCase == <<"A", "B", "C", "D", "E", "F", "G", "H", "I", "J", "K", "L", "M",
               "N", "O", "P", "Q", "R", "S", "T", "U", "V", "W", "X", "Y", "Z">>

LowerCase == <<"a", "b", "c", "d", "e", "f", "g", "h", "i", "j", "k", "l", "m",
               "n", "o", "p", "q", "r", "s", "t", "u", "v", "w", "x", "y", "z">>

\* strings.ToLower
ToLower(s) ==
  [i \in 1..Len(s) |->
     IF \E k \in 1..26 : UpperCase[k] = s[i]
     THEN LowerCase[CHOOSE k \in 1..26 : UpperCase[k] = s[i]]
     ELSE s[i]]

\* os.isAlphaNum
IsAlphaNum(c) ==
  c = "_" \/ IsDigit(c) \/ \E k \in 1..26 : UpperCase[k] = c \/ LowerCase[k] = c

\* os.isShellSpecialVar
IsShellSpecialVar(c) == c \in {"*", "#", "$", "@", "!", "?", "-"} \/ IsDigit(c)

RECURSIVE ScanTo(_, _, _)
\* the least index i >= from with s[i] = c, or 0
ScanTo(s, c, from) ==
  IF from > Len(s) THEN 0 ELSE IF s[from] = c THEN from ELSE ScanTo(s, c, from + 1)

RECURSIVE AlphaNumRun(_, _)
\* the number of leading alphanumerics of s from index i on
AlphaNumRun(s, i) ==
  IF i > Len(s) \/ ~IsAlphaNum(s[i]) THEN 0 ELSE 1 + AlphaNumRun(s, i + 1)

\* os.getShellName for a non-empty s: the name and the number of characters consumed
GetShellName(s) ==
  IF s[1] = "{"
  THEN IF Len(s) > 2 /\ IsShellSpecialVar(s[2]) /\ s[3] = "}"
       THEN [name |-> <<s[2]>>, w |-> 3]
       ELSE LET close == ScanTo(s, "}", 2)
            IN  IF close = 0 THEN [name |-> <<>>, w |-> 1]
                ELSE IF close = 2 THEN [name |-> <<>>, w |-> 2]
                ELSE [name |-> SubSeq(s, 2, close - 1), w |-> close]
  ELSE IF IsShellSpecialVar(s[1]) THEN [name |-> <<s[1]>>, w |-> 1]
  ELSE LET n == AlphaNumRun(s, 1) IN [name |-> SubSeq(s, 1, n), w |-> n]

RECURSIVE ExpandFrom(_, _, _)
\* os.Expand with os.Getenv as the mapping, from index j of s on
ExpandFrom(s, e, j) ==
  IF j > Len(s) THEN <<>>
  ELSE IF s[j] = "$" /\ j < Len(s)
  THEN LET sn == GetShellName(SubSeq(s, j + 1, Len(s)))
           out == IF sn.name = <<>> /\ sn.w > 0 THEN <<>>
                  ELSE IF sn.name = <<>> THEN <<"$">>
                  ELSE Getenv(e, sn.name)
       IN  out \o ExpandFrom(s, e, j + sn.w + 1)
  ELSE <<s[j]>> \o ExpandFrom(s, e, j + 1)

\* no expansion at all
ExpandEnv_Identity(s, e) == s

\* os.ExpandEnv
ExpandEnv(s, e) == ExpandFrom(s, e, 1)

(***************************************************************************)
(* reflect: types, struct fields, tags and values.                         *)
(***************************************************************************)
TString == [kind |-> "string", name |-> <<"string">>]

TBool == [kind |-> "bool", name |-> <<"bool">>]

TInt == [kind |-> "int", name |-> <<"int">>]

TUint == [kind |-> "uint", name |-> <<"uint">>]

TInt64 == [kind |-> "int64", name |-> <<"int64">>]

TUint64 == [kind |-> "uint64", name |-> <<"uint64">>]

\* time.Duration: kind int64, recognised by its name
TDuration == [kind |-> "int64", name |-> <<"time.Duration">>]

\* int32, a kind set has no case for
TInt32 == [kind |-> "int32", name |-> <<"int32">>]

\* type T uint64 and type U uint64
TT == [kind |-> "uint64", name |-> <<"T">>]

TU == [kind |-> "uint64", name |-> <<"U">>]

\* the slice type []elem
SliceT(elem) == [kind |-> "slice", name |-> <<"[]">> \o elem.name, elem |-> elem]

\* a struct type with the given name and fields
StructT(name, fields) == [kind |-> "struct", name |-> name, fields |-> fields]

\* the pointer type *elem
PtrT(elem) == [kind |-> "ptr", name |-> <<"*">> \o elem.name, elem |-> elem]

\* a reflect.StructField; the tag maps the keys that are present to their values
Field(name, exported, type, tag) ==
  [name |-> name, exported |-> exported, type |-> type, tag |-> tag]

\* reflect.StructTag.Lookup
TagLookup(tag, key) ==
  IF key \in DOMAIN tag THEN [value |-> tag[key], ok |-> TRUE]
  ELSE [value |-> <<>>, ok |-> FALSE]

\* reflect.StructTag.Get
TagGet(tag, key) == TagLookup(tag, key).value

RECURSIVE Zero(_)
\* the zero value of a type
Zero(t) ==
  CASE t.kind = "string" -> [s |-> <<>>]
    [] t.kind = "bool" -> [b |-> FALSE]
    [] t.kind \in {"int", "uint", "int32", "int64", "uint64"} -> [n |-> <<"0">>]
    [] t.kind = "struct" -> [f |-> [i \in 1..Len(t.fields) |-> Zero(t.fields[i].type)]]
    [] OTHER -> [nil |-> TRUE]

\* reflect.Value.IsNil of a pointer value
IsNil(v) == "nil" \in DOMAIN v

(***************************************************************************)
(* get: the resolver.  looks is the sequence of keys handed to             *)
(* os.LookupEnv.                                                           *)
(***************************************************************************)
\* get resolving an absent key without a default to "0"
get_NeverEmpty(field, prefix, e) ==
  LET key    == prefix \o TagGet(field.tag, "env")
      req    == TagLookup(field.tag, "required")
      pb     == ParseBool(req.value)
      envRequired == req.ok /\ pb.err = NoErr /\ pb.b
      lk     == LookupEnv(e, key)
      dflt   == IF TagGet(field.tag, "envDefault") = <<>> THEN <<"0">>
                ELSE TagGet(field.tag, "envDefault")
      value  == IF ~lk.found THEN dflt ELSE lk.value
      expandVar == TagGet(field.tag, "envExpand")
  IN  IF req.ok /\ pb.err # NoErr
      THEN [value |-> <<>>,
            err   |-> [kind |-> "badRequired",
                       msg  |-> <<"invalid required tag ">> \o Quote(req.value) \o <<": ">>
                                \o ErrorString(pb.err)],
            looks |-> <<>>]
      ELSE IF ~lk.found /\ envRequired
      THEN [value |-> <<>>,
            err   |-> [kind |-> "missing",
                       msg  |-> <<"env var ">> \o key \o <<" was missing and is required">>],
            looks |-> <<key>>]
      ELSE [value |-> IF ToLower(expandVar) = <<"t", "r", "u", "e">>
                      THEN ExpandEnv(value, e) ELSE value,
            err   |-> NoErr,
            looks |-> <<key>>]

get(field, prefix, e) ==
  LET key    == prefix \o TagGet(field.tag, "env")
      req    == TagLookup(field.tag, "required")
      pb     == ParseBool(req.value)
      envRequired == req.ok /\ pb.err = NoErr /\ pb.b
      lk     == LookupEnv(e, key)
      value  == IF ~lk.found THEN TagGet(field.tag, "envDefault") ELSE lk.value
      expandVar == TagGet(field.tag, "envExpand")
  IN  IF req.ok /\ pb.err # NoErr
      THEN [value |-> <<>>,
            err   |-> [kind |-> "badRequired",
                       msg  |-> <<"invalid required tag ">> \o Quote(req.value) \o <<": ">>
                                \o ErrorString(pb.err)],
            looks |-> <<>>]
      ELSE IF ~lk.found /\ envRequired
      THEN [value |-> <<>>,
            err   |-> [kind |-> "missing",
                       msg  |-> <<"env var ">> \o key \o <<" was missing and is required">>],
            looks |-> <<key>>]
      ELSE [value |-> IF ToLower(expandVar) = <<"t", "r", "u", "e">>
                      THEN ExpandEnv(value, e) ELSE value,
            err   |-> NoErr,
            looks |-> <<key>>]

(***************************************************************************)
(* time.ParseDuration, for durations written as one decimal count and one  *)
(* unit; the value is the number of nanoseconds.                           *)
(***************************************************************************)
RECURSIVE MulSmall(_, _, _)
\* the digit string ds times k (k < 100), plus carry
MulSmall(ds, k, carry) ==
  IF Len(ds) = 0 THEN (IF carry = 0 THEN <<>> ELSE Itoa(carry))
  ELSE LET p == DigitVal(ds[Len(ds)]) * k + carry
       IN  MulSmall(SubSeq(ds, 1, Len(ds) - 1), k, p \div 10) \o <<Digits[(p % 10) + 1]>>

RECURSIVE Zeros(_)
Zeros(n) == IF n = 0 THEN <<>> ELSE <<"0">> \o Zeros(n - 1)

\* the nanoseconds of count units
Nanoseconds(count, unit) ==
  CASE unit = <<"n", "s">> -> count
    [] unit = <<"u", "s">> -> count \o Zeros(3)
    [] unit = <<"m", "s">> -> count \o Zeros(6)
    [] unit = <<"s">> -> count \o Zeros(9)
    [] unit = <<"m">> -> MulSmall(count, 6, 0) \o Zeros(10)
    [] unit = <<"h">> -> MulSmall(count, 36, 0) \o Zeros(11)

DurationUnits == { <<"n", "s">>, <<"u", "s">>, <<"m", "s">>, <<"s">>, <<"m">>, <<"h">> }

InvalidDuration(s) ==
  [kind |-> "duration", msg |-> <<"time: invalid duration ">> \o Quote(s)]

ParseDuration(s) ==
  LET signed == Len(s) > 0 /\ s[1] \in {"+", "-"}
      neg    == signed /\ s[1] = "-"
      body   == IF signed THEN Tail(s) ELSE s
      nd     == IF Len(body) = 0 THEN 0
                ELSE CHOOSE n \in 0..Len(body) :
                       /\ \A i \in 1..n : IsDigit(body[i])
                       /\ n < Len(body) => ~IsDigit(body[n + 1])
      unit   == SubSeq(body, nd + 1, Len(body))
      ns     == StripZeros(Nanoseconds(SubSeq(body, 1, nd), unit))
  IN  IF body = <<"0">> THEN [n |-> <<"0">>, err |-> NoErr]
      ELSE IF nd = 0 \/ unit \notin DurationUnits
      THEN [n |-> <<"0">>, err |-> InvalidDuration(s)]
      ELSE IF ~MagLeq(ns, MaxInt(64))
      THEN [n |-> <<"0">>, err |-> InvalidDuration(s)]
      ELSE [n |-> IF neg /\ ns # <<"0">> THEN <<"-">> \o ns ELSE ns, err |-> NoErr]

(***************************************************************************)
(* set: the converter.  A result holds the error, the field's new value,   *)
(* whether the call panicked (reflect panics on a field that cannot be     *)
(* set) and the invocations of custom parsers it made.                     *)
(***************************************************************************)
Converted(v) == [err |-> NoErr, val |-> v, panic |-> FALSE, calls |-> <<>>]

Failed(err, v) == [err |-> err, val |-> v, panic |-> FALSE, calls |-> <<>>]

Panicked(v) == [err |-> NoErr, val |-> v, panic |-> TRUE, calls |-> <<>>]

\* field.Set and its kin: reflect panics unless the field can be set
Assign(canSet, old, new) == IF canSet THEN Converted(new) ELSE Panicked(old)

\* a converted value or, when the conversion failed, its error
AssignParsed(canSet, old, r) ==
  IF r.err # NoErr THEN Failed(r.err, old) ELSE Assign(canSet, old, [n |-> r.n])

\* the type has a method UnmarshalText on its pointer receiver
Implements(t) == "tu" \in DOMAIN t

\* (*unmarshaler).UnmarshalText of the tests: the new value and the error
UnmarshalText(t, v, data) ==
  IF Len(data) # 0
  THEN LET r == ParseDuration(data) IN [val |-> [f |-> <<[n |-> r.n]>>], err |-> r.err]
  ELSE [val |-> [f |-> <<[n |-> <<"0">>]>>], err |-> NoErr]

\* a custom ParserFunc, named by what it does: "errors" fails, "T99" returns
\* T(99), "int99" returns int(99), "fooPtr" returns &foo{name: v}, "foo"
\* returns foo{name: v}
ApplyParser(p, value) ==
  CASE p = "errors" ->
         [val |-> [nil |-> TRUE], err |-> [kind |-> "custom", msg |-> <<"something broke">>]]
    [] p \in {"T99", "int99"} -> [val |-> [n |-> <<"9", "9">>], err |-> NoErr]
    [] p = "fooPtr" -> [val |-> [to |-> [f |-> <<[s |-> value]>>]], err |-> NoErr]
    [] OTHER -> [val |-> [f |-> <<[s |-> value]>>], err |-> NoErr]

handleTextUnmarshaler(v, canSet, t, value) ==
  IF t.kind = "ptr"
  THEN IF ~canSet THEN Panicked(v)
       ELSE LET p == IF IsNil(v) THEN [to |-> Zero(t.elem)] ELSE v
            IN  IF ~Implements(t.elem) THEN Failed(ErrUnsupportedType, p)
                ELSE LET r == UnmarshalText(t.elem, p.to, value)
                     IN  Failed(r.err, [to |-> r.val])
  ELSE IF ~canSet THEN Panicked(v)
  ELSE IF ~Implements(t) THEN Failed(ErrUnsupportedType, v)
  ELSE LET r == UnmarshalText(t, v, value)
       IN  Failed(r.err, r.val)

RECURSIVE Split(_, _)
\* strings.Split for a non-empty separator
Split(s, sep) ==
  IF ~Contains(s, sep) THEN <<s>>
  ELSE LET i == CHOOSE k \in 1..(Len(s) - Len(sep) + 1) :
                  /\ SubSeq(s, k, k + Len(sep) - 1) = sep
                  /\ \A m \in 1..(k - 1) : SubSeq(s, m, m + Len(sep) - 1) # sep
       IN  <<SubSeq(s, 1, i - 1)>> \o Split(SubSeq(s, i + Len(sep), Len(s)), sep)

RECURSIVE parseEach(_, _, _)
\* parseInts, parseInt64s, parseUint64s, parseBools, parseDurations: the
\* elements converted so far, or the first error
parseEach(data, elem, acc) ==
  IF Len(data) = 0 THEN [vals |-> acc, err |-> NoErr]
  ELSE LET r == CASE elem = TInt -> ParseInt(data[1], 32)
                  [] elem = TInt64 -> ParseInt(data[1], 64)
                  [] elem = TUint64 -> ParseUint(data[1], 64)
                  [] elem = TDuration -> ParseDuration(data[1])
                  [] elem = TBool -> ParseBool(data[1])
           x == IF elem = TBool THEN [b |-> r.b] ELSE [n |-> r.n]
       IN  IF r.err # NoErr THEN [vals |-> <<>>, err |-> r.err]
           ELSE parseEach(Tail(data), elem, Append(acc, x))

RECURSIVE parseTextUnmarshalers(_, _, _)
parseTextUnmarshalers(data, elemType, acc) ==
  IF Len(data) = 0 THEN [vals |-> acc, err |-> NoErr]
  ELSE LET t == IF elemType.kind = "ptr" THEN elemType.elem ELSE elemType
           r == UnmarshalText(t, Zero(t), data[1])
           x == IF elemType.kind = "ptr" THEN [to |-> r.val] ELSE r.val
       IN  IF r.err # NoErr THEN [vals |-> <<>>, err |-> r.err]
           ELSE parseTextUnmarshalers(Tail(data), elemType, Append(acc, x))

\* handleSlice splitting at the comma whatever the field's separator
handleSlice_CommaOnly(v, canSet, t, value, separator) ==
  LET sep == <<",">>
      splitData == Split(value, sep)
      elemType == IF t.elem.kind = "ptr" THEN t.elem.elem ELSE t.elem
  IN  IF t.elem = TString
      THEN Assign(canSet, v, [e |-> [i \in 1..Len(splitData) |-> [s |-> splitData[i]]]])
      ELSE IF t.elem \in {TInt, TInt64, TUint64, TBool, TDuration}
      THEN LET r == parseEach(splitData, t.elem, <<>>)
           IN  IF r.err # NoErr THEN Failed(r.err, v) ELSE Assign(canSet, v, [e |-> r.vals])
      ELSE IF ~Implements(elemType) THEN Failed(ErrUnsupportedSliceType, v)
      ELSE LET r == parseTextUnmarshalers(splitData, t.elem, <<>>)
           IN  IF r.err # NoErr THEN Failed(r.err, v) ELSE Assign(canSet, v, [e |-> r.vals])

handleSlice(v, canSet, t, value, separator) ==
  LET sep == IF separator = <<>> THEN <<",">> ELSE separator
      splitData == Split(value, sep)
      elemType == IF t.elem.kind = "ptr" THEN t.elem.elem ELSE t.elem
  IN  IF t.elem = TString
      THEN Assign(canSet, v, [e |-> [i \in 1..Len(splitData) |-> [s |-> splitData[i]]]])
      ELSE IF t.elem \in {TInt, TInt64, TUint64, TBool, TDuration}
      THEN LET r == parseEach(splitData, t.elem, <<>>)
           IN  IF r.err # NoErr THEN Failed(r.err, v) ELSE Assign(canSet, v, [e |-> r.vals])
      ELSE IF ~Implements(elemType) THEN Failed(ErrUnsupportedSliceType, v)
      ELSE LET r == parseTextUnmarshalers(splitData, t.elem, <<>>)
           IN  IF r.err # NoErr THEN Failed(r.err, v) ELSE Assign(canSet, v, [e |-> r.vals])

set(v, canSet, refType, value, funcMap) ==
  LET t == refType.type
      invoked(x) == [x EXCEPT !.calls = <<[sink |-> "ParserFunc", type |-> t, value |-> value]>>]
  IN  IF t \in DOMAIN funcMap
      THEN LET r == ApplyParser(funcMap[t], value)
           IN  IF r.err # NoErr
               THEN invoked(Failed([kind |-> "customParser",
                                    msg  |-> <<"custom parser error: ">> \o ErrorString(r.err)],
                                   v))
               ELSE invoked(Assign(canSet, v, r.val))
      ELSE CASE t.kind = "slice" ->
                  handleSlice(v, canSet, t, value, TagGet(refType.tag, "envSeparator"))
             [] t.kind = "string" -> Assign(canSet, v, [s |-> value])
             [] t.kind = "bool" ->
                  LET r == ParseBool(value)
                  IN  IF r.err # NoErr THEN Failed(r.err, v) ELSE Assign(canSet, v, [b |-> r.b])
             [] t.kind = "int" -> AssignParsed(canSet, v, ParseInt(value, 32))
             [] t.kind = "uint" -> AssignParsed(canSet, v, ParseUint(value, 32))
             [] t.kind = "int64" ->
                  IF t.name = <<"time.Duration">>
                  THEN AssignParsed(canSet, v, ParseDuration(value))
                  ELSE AssignParsed(canSet, v, ParseInt(value, 64))
             [] t.kind = "uint64" -> AssignParsed(canSet, v, ParseUint(value, 64))
             [] OTHER -> handleTextUnmarshaler(v, canSet, t, value)

(***************************************************************************)
(* The walker.  c is the context of a call: the environment, whether the   *)
(* two package-level sinks are set, and whether the struct being walked    *)
(* was reached through an unexported field (reflect's read-only flag).     *)
(* A result holds the returned error, the new value of the walked object,  *)
(* the assignments to fields and the invocations of the sinks and of       *)
(* custom parsers, and the keys looked up, in order.                       *)
(***************************************************************************)
\* fieldPath + "." + name, or name at the root
JoinPath(fieldPath, name) == IF fieldPath # <<>> THEN fieldPath \o <<".">> \o name ELSE name

\* the invocations of DebugLogger and OnEnvVarSet after a field was set
\* the sinks called in the other order: the callback, then the debug sink
SinkCalls_CallbackFirst(c, prefix, structType, refTypeField, currentPath, value) ==
  (IF c.OnEnvVarSet
   THEN << [sink |-> "OnEnvVarSet", field |-> refTypeField, value |-> value] >>
   ELSE <<>>)
  \o
  (IF c.DebugLogger
   THEN << [sink |-> "DebugLogger",
            msg  |-> <<"env: ">> \o (prefix \o TagGet(refTypeField.tag, "env")) \o <<" = ">>
                     \o value \o <<" (field: ">> \o structType.name \o <<".">>
                     \o currentPath \o <<")">>] >>
   ELSE <<>>)

SinkCalls(c, prefix, structType, refTypeField, currentPath, value) ==
  (IF c.DebugLogger
   THEN << [sink |-> "DebugLogger",
            msg  |-> <<"env: ">> \o (prefix \o TagGet(refTypeField.tag, "env")) \o <<" = ">>
                     \o value \o <<" (field: ">> \o structType.name \o <<".">>
                     \o currentPath \o <<")">>] >>
   ELSE <<>>)
  \o
  (IF c.OnEnvVarSet
   THEN << [sink |-> "OnEnvVarSet", field |-> refTypeField, value |-> value] >>
   ELSE <<>>)

\* the error of ParseWithPrefix and ParseWithPrefixFuncs for a bad prefix
PrefixError(prefix) ==
  [kind |-> "prefix", msg |-> <<"prefix must end with underscore, got: ">> \o Quote(prefix)]

\* the prefix check left out: every prefix is accepted
ValidPrefix_Unchecked(prefix) == TRUE

\* the prefix check of ParseWithPrefix and ParseWithPrefixFuncs
ValidPrefix(prefix) == ~(prefix # <<>> /\ ~HasSuffix(prefix, <<"_">>))

RECURSIVE doParseFrom(_, _, _, _, _, _, _)
RECURSIVE ParseWithPrefixFuncs(_, _, _, _, _)

\* the body of the loop of doParse for field i.  acc holds the struct's
\* value, the errors collected, the sink calls and the lookups so far, and,
\* once the loop is left early, the error returned (ret) or the panic
doParseField(i, structType, fieldPath, prefix, funcMap, c, acc) ==
  LET refField     == acc.val.f[i]
      refTypeField == structType.fields[i]
      currentPath  == JoinPath(fieldPath, refTypeField.name)
      canSet       == refTypeField.exported /\ ~c.ro
      put(x)       == [acc.val EXCEPT !.f[i] = x]
      \* after ParseWithPrefixFuncs(refField.Interface(), prefix, funcMap)
      pointed(r) ==
        IF r.panic \/ r.err # NoErr
        THEN [acc EXCEPT !.val = put(r.val), !.events = r.events, !.looks = r.looks,
                         !.ret = r.err, !.panic = r.panic, !.stop = TRUE]
        ELSE [acc EXCEPT !.val = put(r.val), !.events = r.events, !.looks = r.looks]
      \* after doParse(refField, refType, currentPath, prefix, funcMap)
      nested(r) ==
        IF r.panic
        THEN [acc EXCEPT !.val = put(r.val), !.events = r.events, !.looks = r.looks,
                         !.panic = TRUE, !.stop = TRUE]
        ELSE [acc EXCEPT !.val = put(r.val),
                         !.errs = IF r.err # NoErr THEN Append(@, r.err) ELSE @,
                         !.events = r.events, !.looks = r.looks]
      \* after set(refField, refTypeField, value, funcMap)
      converted(value, looked, r) ==
        IF r.panic
        THEN [acc EXCEPT !.val = put(r.val), !.events = @ \o r.calls, !.looks = looked,
                         !.panic = TRUE, !.stop = TRUE]
        ELSE IF r.err # NoErr
        THEN [acc EXCEPT !.val = put(r.val),
                         !.errs = Append(@, FieldError(currentPath, structType.name, r.err)),
                         !.events = @ \o r.calls, !.looks = looked]
        ELSE [acc EXCEPT !.val = put(r.val),
                         !.events = @ \o r.calls
                                      \o <<[sink |-> "Set", field |-> refTypeField,
                                            value |-> value]>>
                                      \o SinkCalls(c, prefix, structType, refTypeField,
                                                   currentPath, value),
                         !.looks = looked]
      \* after get(refTypeField, prefix)
      resolved(g) ==
        IF g.err # NoErr
        THEN [acc EXCEPT !.errs = Append(@, FieldError(currentPath, structType.name, g.err)),
                         !.looks = @ \o g.looks]
        ELSE IF g.value = <<>>
        THEN IF refTypeField.type.kind = "struct"
             THEN nested(doParseFrom(1, refTypeField.type, currentPath, prefix, funcMap,
                                     [c EXCEPT !.ro = ~canSet],
                                     [acc EXCEPT !.val = refField, !.errs = <<>>,
                                                 !.looks = @ \o g.looks]))
             ELSE [acc EXCEPT !.looks = @ \o g.looks]
        ELSE converted(g.value, acc.looks \o g.looks,
                       set(refField, canSet, refTypeField, g.value, funcMap))
  IN  IF refTypeField.type.kind = "ptr" /\ ~IsNil(refField) /\ canSet
      THEN pointed(ParseWithPrefixFuncs([type |-> refTypeField.type, val |-> refField],
                                        prefix, funcMap, c,
                                        [events |-> acc.events, looks |-> acc.looks]))
      ELSE resolved(get(refTypeField, prefix, c.env))

\* the loop of doParse from field i on, and what doParse returns after it
doParseFrom(i, structType, fieldPath, prefix, funcMap, c, acc) ==
  IF acc.stop
  THEN [err |-> acc.ret, val |-> acc.val, events |-> acc.events, looks |-> acc.looks,
        panic |-> acc.panic]
  ELSE IF i > Len(structType.fields)
  THEN [err    |-> IF Len(acc.errs) = 0 THEN NoErr ELSE ParseErrors(acc.errs),
        val    |-> acc.val, events |-> acc.events, looks |-> acc.looks, panic |-> FALSE]
  ELSE doParseFrom(i + 1, structType, fieldPath, prefix, funcMap, c,
                   doParseField(i, structType, fieldPath, prefix, funcMap, c, acc))

\* doParse(ref, structType, fieldPath, prefix, funcMap); fx holds the sink
\* calls and lookups made before the call
doParse(ref, structType, fieldPath, prefix, funcMap, c, fx) ==
  doParseFrom(1, structType, fieldPath, prefix, funcMap, c,
              [val |-> ref, errs |-> <<>>, events |-> fx.events, looks |-> fx.looks,
               ret |-> NoErr, panic |-> FALSE, stop |-> FALSE])

\* ParseWithPrefixFuncs testing the pointer's static element type instead of
\* the kind of the value it points to: a nil pointer to a struct gets past the
\* test and the walk panics on the invalid reflect.Value
ParseWithPrefixFuncs_StaticElem(v, prefix, funcMap, c, fx) ==
  LET stop(err) == [err |-> err, val |-> v.val, events |-> fx.events, looks |-> fx.looks,
                    panic |-> FALSE]
      boxed(r)  == [r EXCEPT !.val = [to |-> r.val]]
  IN  IF ~ValidPrefix(prefix) THEN stop(PrefixError(prefix))
      ELSE IF v.type.kind # "ptr" THEN stop(ErrNotAStructPtr)
      ELSE IF v.type.elem.kind # "struct" THEN stop(ErrNotAStructPtr)
      ELSE IF IsNil(v.val) THEN [stop(NoErr) EXCEPT !.panic = TRUE]
      ELSE boxed(doParse(v.val.to, v.type.elem, <<>>, prefix, funcMap,
                         [c EXCEPT !.ro = FALSE], fx))

\* ParseWithPrefixFuncs(v, prefix, funcMap); v is an interface value: its
\* dynamic type and its value
ParseWithPrefixFuncs(v, prefix, funcMap, c, fx) ==
  LET stop(err) == [err |-> err, val |-> v.val, events |-> fx.events, looks |-> fx.looks,
                    panic |-> FALSE]
      boxed(r)  == [r EXCEPT !.val = [to |-> r.val]]
  IN  IF ~ValidPrefix(prefix) THEN stop(PrefixError(prefix))
      ELSE IF v.type.kind # "ptr" THEN stop(ErrNotAStructPtr)
      ELSE IF IsNil(v.val) \/ v.type.elem.kind # "struct" THEN stop(ErrNotAStructPtr)
      ELSE boxed(doParse(v.val.to, v.type.elem, <<>>, prefix, funcMap,
                         [c EXCEPT !.ro = FALSE], fx))

\* ParseWithPrefix(v, prefix)
ParseWithPrefix(v, prefix, c, fx) ==
  IF ~ValidPrefix(prefix)
  THEN [err |-> PrefixError(prefix), val |-> v.val, events |-> fx.events, looks |-> fx.looks,
        panic |-> FALSE]
  ELSE ParseWithPrefixFuncs(v, prefix, <<>>, c, fx)

\* Parse(v)
Parse(v, c, fx) == ParseWithPrefixFuncs(v, <<>>, <<>>, c, fx)

\* ParseWithFuncs(v, funcMap)
ParseWithFuncs(v, funcMap, c, fx) == ParseWithPrefixFuncs(v, <<>>, funcMap, c, fx)

(***************************************************************************)
(* GetAllVars.                                                             *)
(***************************************************************************)
RECURSIVE collectVarsFrom(_, _, _, _)
\* the loop of collectVars from field i on: the entries appended
collectVarsFrom(i, structType, fieldPath, prefix) ==
  IF i > Len(structType.fields) THEN <<>>
  ELSE
    LET refTypeField == structType.fields[i]
        currentPath  == JoinPath(fieldPath, refTypeField.name)
        envTag       == TagGet(refTypeField.tag, "env")
        reqTag       == TagGet(refTypeField.tag, "required")
        pb           == ParseBool(reqTag)
        defaultValue == TagGet(refTypeField.tag, "envDefault")
        nested       == IF refTypeField.type.kind = "struct"
                        THEN collectVarsFrom(1, refTypeField.type, currentPath, prefix)
                        ELSE <<>>
        info         == [Name       |-> prefix \o envTag,
                         FieldName  |-> refTypeField.name,
                         FieldPath  |-> currentPath,
                         Required   |-> reqTag # <<>> /\ pb.err = NoErr /\ pb.b,
                         Default    |-> defaultValue,
                         Type       |-> refTypeField.type.name,
                         HasDefault |-> defaultValue # <<>>]
    IN  (IF envTag = <<>> THEN nested ELSE <<info>> \o nested)
        \o collectVarsFrom(i + 1, structType, fieldPath, prefix)

collectVars(structType, fieldPath, prefix) == collectVarsFrom(1, structType, fieldPath, prefix)

\* GetAllVars listing only the variables that are set in the environment
GetAllVars_SetOnly(v, prefix) ==
  LET IsSet(info) == info.Name \in DOMAIN env
  IN  IF v.type.kind # "ptr" THEN [vars |-> <<>>, err |-> ErrNotAStructPtr]
      ELSE IF IsNil(v.val) \/ v.type.elem.kind # "struct"
      THEN [vars |-> <<>>, err |-> ErrNotAStructPtr]
      ELSE [vars |-> SelectSeq(collectVars(v.type.elem, <<>>, prefix), IsSet), err |-> NoErr]

\* GetAllVars(v, prefix)
GetAllVars(v, prefix) ==
  IF v.type.kind # "ptr" THEN [vars |-> <<>>, err |-> ErrNotAStructPtr]
  ELSE IF IsNil(v.val) \/ v.type.elem.kind # "struct"
  THEN [vars |-> <<>>, err |-> ErrNotAStructPtr]
  ELSE [vars |-> collectVars(v.type.elem, <<>>, prefix), err |-> NoErr]

RECURSIVE RequiredNames(_)
\* the loop of GetRequiredVars: the names of the entries that are required
RequiredNames(allVars) ==
  IF Len(allVars) = 0 THEN <<>>
  ELSE (IF allVars[1].Required THEN <<allVars[1].Name>> ELSE <<>>)
       \o RequiredNames(Tail(allVars))

\* GetRequiredVars(v, prefix)
GetRequiredVars(v, prefix) ==
  LET from(r) == IF r.err # NoErr THEN [names |-> <<>>, err |-> r.err]
                 ELSE [names |-> RequiredNames(r.vars), err |-> NoErr]
  IN  from(GetAllVars(v, prefix))

RECURSIVE MissingNames(_, _)
\* the loop of ValidateRequired: the names os.LookupEnv does not find
MissingNames(names, e) ==
  IF Len(names) = 0 THEN <<>>
  ELSE (IF LookupEnv(e, names[1]).found THEN <<>> ELSE <<names[1]>>)
       \o MissingNames(Tail(names), e)

RECURSIVE Spaced(_)
\* fmt's %v of the elements of a []string
Spaced(names) ==
  IF Len(names) = 0 THEN <<>>
  ELSE IF Len(names) = 1 THEN names[1]
  ELSE names[1] \o <<" ">> \o Spaced(Tail(names))

\* ValidateRequired(v, prefix): the error and the keys looked up
ValidateRequired(v, prefix, e) ==
  LET checked(r, missingVars) ==
        IF r.err # NoErr THEN [err |-> r.err, looks |-> <<>>]
        ELSE IF Len(missingVars) > 0
        THEN [err   |-> [kind |-> "missingVars",
                         msg  |-> <<"missing required environment variables: ", "[">>
                                  \o Spaced(missingVars) \o <<"]">>,
                         names |-> missingVars],
              looks |-> r.names]
        ELSE [err |-> NoErr, looks |-> r.names]
      from(r) == checked(r, MissingNames(r.names, e))
  IN  from(GetRequiredVars(v, prefix))

(***************************************************************************)
(* The getters of util.go.  A result holds the returned value and whether  *)
(* the call panicked.                                                      *)
(***************************************************************************)
\* what a getter returns
Returned(x) == [val |-> x, panic |-> FALSE]

\* GetOr falling back to the default for an empty value too
GetOr_EmptyIsUnset(key, defaultValue, e) ==
  IF LookupEnv(e, key).found /\ LookupEnv(e, key).value # <<>>
  THEN Returned([s |-> LookupEnv(e, key).value])
  ELSE Returned([s |-> defaultValue])

GetOr(key, defaultValue, e) ==
  IF LookupEnv(e, key).found THEN Returned([s |-> LookupEnv(e, key).value])
  ELSE Returned([s |-> defaultValue])

GetOrBool(key, defaultValue, e) ==
  LET parsed(r) == IF r.err = NoErr THEN Returned([b |-> r.b]) ELSE Returned(defaultValue)
  IN  IF LookupEnv(e, key).found THEN parsed(ParseBool(LookupEnv(e, key).value))
      ELSE Returned(defaultValue)

GetOrInt(key, defaultValue, e) ==
  LET parsed(r) == IF r.err = NoErr THEN Returned([n |-> r.n]) ELSE Returned(defaultValue)
  IN  IF LookupEnv(e, key).found THEN parsed(ParseInt(LookupEnv(e, key).value, 32))
      ELSE Returned(defaultValue)

GetOrUint(key, defaultValue, e) ==
  LET parsed(r) == IF r.err = NoErr THEN Returned([n |-> r.n]) ELSE Returned(defaultValue)
  IN  IF LookupEnv(e, key).found THEN parsed(ParseUint(LookupEnv(e, key).value, 32))
      ELSE Returned(defaultValue)

GetOrInt64(key, defaultValue, e) ==
  LET parsed(r) == IF r.err = NoErr THEN Returned([n |-> r.n]) ELSE Returned(defaultValue)
  IN  IF LookupEnv(e, key).found THEN parsed(ParseInt(LookupEnv(e, key).value, 64))
      ELSE Returned(defaultValue)

GetOrUint64(key, defaultValue, e) ==
  LET parsed(r) == IF r.err = NoErr THEN Returned([n |-> r.n]) ELSE Returned(defaultValue)
  IN  IF LookupEnv(e, key).found THEN parsed(ParseUint(LookupEnv(e, key).value, 64))
      ELSE Returned(defaultValue)

\* GetOrDuration: the default is a string, parsed when it is needed
GetOrDuration(key, defaultValue, e) ==
  LET fallback(d) == IF d.err # NoErr THEN [val |-> [nil |-> TRUE], panic |-> TRUE] ELSE Returned([n |-> d.n])
      parsed(r) == IF r.err = NoErr THEN Returned([n |-> r.n])
                   ELSE fallback(ParseDuration(defaultValue))
  IN  IF LookupEnv(e, key).found THEN parsed(ParseDuration(LookupEnv(e, key).value))
      ELSE fallback(ParseDuration(defaultValue))

(***************************************************************************)
(* The destinations, prefixes and environments of the model.               *)
(***************************************************************************)
NoTag == [x \in {} |-> <<>>]

\* type Inner struct { G1 string `env:"A" required:"true"`; G2 int `env:"B"` }
Inner ==
  StructT(<<"Inner">>,
          << Field(<<"G1">>, TRUE, TString, [env |-> <<"A">>, required |-> <<"t", "r", "u", "e">>]),
             Field(<<"G2">>, TRUE, TInt, [env |-> <<"B">>]) >>)

\* the declarations a field of the root struct is drawn from: a type and a tag
FieldPool ==
  { [type |-> TInt, tag |-> [env |-> <<"B">>, envDefault |-> <<"7">>]],
    [type |-> TString,
     tag  |-> [env |-> <<"A">>, required |-> <<"t", "r", "u", "e">>, envDefault |-> <<"d">>]],
    [type |-> TInt, tag |-> [env |-> <<"B">>, required |-> <<"c", "a", "t">>]],
    [type |-> TString, tag |-> NoTag],
    [type |-> Inner, tag |-> NoTag],
    [type |-> PtrT(Inner), tag |-> NoTag] }

\* type Config struct { F1 ...; F2 ... }
ConfigTypes ==
  { StructT(<<"Config">>, << Field(<<"F1">>, TRUE, d[1].type, d[1].tag),
                            Field(<<"F2">>, TRUE, d[2].type, d[2].tag) >>) :
      d \in FieldPool \X FieldPool }

RECURSIVE Values(_)
\* the values a destination of type t starts with: zero values, pointers
\* nil or pointing to a zero value
Values(t) ==
  IF t.kind = "ptr" THEN {[nil |-> TRUE]} \cup {[to |-> x] : x \in Values(t.elem)}
  ELSE IF t.kind = "struct"
  THEN {[f |-> fs] : fs \in {g \in [1..Len(t.fields) -> UNION {Values(t.fields[i].type) : i \in 1..Len(t.fields)}] :
                               \A i \in 1..Len(t.fields) : g[i] \in Values(t.fields[i].type)}}
  ELSE {Zero(t)}

\* the arguments v of a call: a pointer to a Config, and the arguments that
\* are no pointer to a struct
Dests ==
  UNION { {[type |-> PtrT(t), val |-> [to |-> x]] : x \in Values(t)} : t \in ConfigTypes }
  \cup { [type |-> Inner, val |-> Zero(Inner)],
         [type |-> PtrT(Inner), val |-> [nil |-> TRUE]],
         [type |-> PtrT(TInt), val |-> [to |-> Zero(TInt)]],
         [type |-> [kind |-> "invalid", name |-> <<"nil">>], val |-> [nil |-> TRUE]] }

Prefixes == { <<>>, <<"P", "_">>, <<"P">> }

EnvKeys == { <<"A">>, <<"B">>, <<"P", "_">>, <<"P", "_", "A">> }

EnvValues == { <<"7">>, <<"x">> }

\* the custom parser registries of the model
FuncMaps == { <<>> }

(***************************************************************************)
(* The destinations of the conversion runs: a struct with one field mapped *)
(* to the key V, of every type the converter tells apart.                  *)
(***************************************************************************)
\* type unmarshaler struct { time.Duration }, with UnmarshalText on *unmarshaler
Unmarshaler ==
  [kind |-> "struct", name |-> <<"unmarshaler">>,
   fields |-> << Field(<<"Duration">>, TRUE, TDuration, NoTag) >>, tu |-> TRUE]

\* type foo struct { name string }
Foo == StructT(<<"foo">>, << Field(<<"name">>, FALSE, TString, NoTag) >>)

\* type nest struct { N string `env:"V"` }
Nest == StructT(<<"nest">>, << Field(<<"N">>, TRUE, TString, [env |-> <<"V">>]) >>)

\* the types of an exported field V `env:"V"`
ConvTypes ==
  { TString, TInt, TUint64, TT, TU, TInt32, Foo, Unmarshaler,
    PtrT(Unmarshaler), PtrT(Foo), PtrT(TInt32), SliceT(TInt), SliceT(TInt32) }

\* type config struct { <one field> }: V of a type of ConvTypes, or an
\* unexported field, mapped or holding a struct with a mapped field
ConvConfigs ==
  { StructT(<<"config">>, << Field(<<"V">>, TRUE, t, [env |-> <<"V">>]) >>) : t \in ConvTypes }
  \cup { StructT(<<"config">>, << Field(<<"v">>, FALSE, TString, [env |-> <<"V">>]) >>),
         StructT(<<"config">>, << Field(<<"nest">>, FALSE, Nest, NoTag) >>),
         StructT(<<"config">>, << Field(<<"P">>, TRUE, PtrT(Nest), NoTag) >>) }

ConvDests ==
  UNION { {[type |-> PtrT(t), val |-> [to |-> x]] : x \in Values(t)} : t \in ConvConfigs }

ConvValues == { <<"7">>, <<"1", "m">>, <<"7", ",", "x">> }

ConvEnvs == { NoTag } \cup { (<<"V">> :> value) : value \in ConvValues }

\* the registries of the conversion runs
ConvFuncMaps ==
  { <<>>, (TT :> "T99"), (TInt :> "int99"), (Foo :> "foo"), (Foo :> "errors"),
    (PtrT(Foo) :> "fooPtr") }

(***************************************************************************)
(* The state machine: the process environment, the caller's destination,   *)
(* the two package-level sinks, and the outcome of the last call.          *)
(***************************************************************************)
NoCall == [op |-> "none"]

Init ==
  /\ env = NoTag
  /\ dst \in Dests
  /\ OnEnvVarSet = FALSE
  /\ DebugLogger = FALSE
  /\ last = NoCall
  /\ nops = 0

\* the context of a call made in the current state
Ctx == [env |-> env, OnEnvVarSet |-> OnEnvVarSet, DebugLogger |-> DebugLogger, ro |-> FALSE]

NoFx == [events |-> <<>>, looks |-> <<>>]

\* the record of a parse call: its inputs and everything it did
Outcome(op, prefix, funcMap, r) ==
  [op |-> op, prefix |-> prefix, funcMap |-> funcMap, err |-> r.err, events |-> r.events,
   looks |-> r.looks, panic |-> r.panic, pre |-> dst.val]

\* Set(key, value), a wrapper of os.Setenv
Set(key, value) ==
  /\ nops < MaxOps
  /\ env' = Setenv(env, key, value)
  /\ nops' = nops + 1
  /\ last' = NoCall
  /\ UNCHANGED <<dst, OnEnvVarSet, DebugLogger>>

\* Unset(key), a wrapper of os.Unsetenv
Unset(key) ==
  /\ nops < MaxOps
  /\ key \in DOMAIN env
  /\ env' = Unsetenv(env, key)
  /\ nops' = nops + 1
  /\ last' = NoCall
  /\ UNCHANGED <<dst, OnEnvVarSet, DebugLogger>>

\* EnableDebugLogging(logger)
EnableDebugLogging(logger) ==
  /\ nops < MaxOps
  /\ DebugLogger' = logger
  /\ nops' = nops + 1
  /\ last' = NoCall
  /\ UNCHANGED <<env, dst, OnEnvVarSet>>

\* OnEnvVarSet = callback
AssignOnEnvVarSet(callback) ==
  /\ nops < MaxOps
  /\ OnEnvVarSet' = callback
  /\ nops' = nops + 1
  /\ last' = NoCall
  /\ UNCHANGED <<env, dst, DebugLogger>>

\* the effect of a parse call on the state
Parsed(op, prefix, funcMap, r) ==
  /\ nops < MaxOps
  /\ dst' = [dst EXCEPT !.val = r.val]
  /\ last' = Outcome(op, prefix, funcMap, r)
  /\ nops' = nops + 1
  /\ UNCHANGED <<env, OnEnvVarSet, DebugLogger>>

CallParse == Parsed("Parse", <<>>, <<>>, Parse(dst, Ctx, NoFx))

CallParseWithPrefix(prefix) ==
  Parsed("ParseWithPrefix", prefix, <<>>, ParseWithPrefix(dst, prefix, Ctx, NoFx))

CallParseWithFuncs(funcMap) ==
  Parsed("ParseWithFuncs", <<>>, funcMap, ParseWithFuncs(dst, funcMap, Ctx, NoFx))

CallParseWithPrefixFuncs(prefix, funcMap) ==
  Parsed("ParseWithPrefixFuncs", prefix, funcMap,
         ParseWithPrefixFuncs(dst, prefix, funcMap, Ctx, NoFx))

CallGetAllVars(prefix) ==
  LET listed(r) == [op |-> "GetAllVars", prefix |-> prefix, err |-> r.err, vars |-> r.vars,
                    events |-> <<>>, looks |-> <<>>, panic |-> FALSE, pre |-> dst.val]
  IN  /\ nops < MaxOps
      /\ last' = listed(GetAllVars(dst, prefix))
      /\ nops' = nops + 1
      /\ UNCHANGED <<env, dst, OnEnvVarSet, DebugLogger>>

CallValidateRequired(prefix) ==
  LET checked(r) == [op |-> "ValidateRequired", prefix |-> prefix, err |-> r.err,
                     events |-> <<>>, looks |-> r.looks, panic |-> FALSE, pre |-> dst.val]
  IN  /\ nops < MaxOps
      /\ last' = checked(ValidateRequired(dst, prefix, env))
      /\ nops' = nops + 1
      /\ UNCHANGED <<env, dst, OnEnvVarSet, DebugLogger>>

Next ==
  \/ \E key \in EnvKeys, value \in EnvValues : Set(key, value)
  \/ \E key \in EnvKeys : Unset(key)
  \/ \E logger \in BOOLEAN : EnableDebugLogging(logger)
  \/ \E callback \in BOOLEAN : AssignOnEnvVarSet(callback)
  \/ CallParse
  \/ \E prefix \in Prefixes : CallParseWithPrefix(prefix)
  \/ \E funcMap \in FuncMaps : CallParseWithFuncs(funcMap)
  \/ \E prefix \in Prefixes, funcMap \in FuncMaps : CallParseWithPrefixFuncs(prefix, funcMap)
  \/ \E prefix \in Prefixes : CallGetAllVars(prefix)

Spec == Init /\ [][Next]_vars

\* validation before a parse: the destinations of Spec, the keys A and B
\* unset, set to the empty string or set to a value
NextRequired ==
  \/ \E key \in { <<"A">>, <<"B">> }, value \in { <<>>, <<"7">> } : Set(key, value)
  \/ \E key \in { <<"A">>, <<"B">> } : Unset(key)
  \/ \E prefix \in Prefixes : CallValidateRequired(prefix)
  \/ \E prefix \in Prefixes : CallParseWithPrefix(prefix)

SpecRequired == Init /\ [][NextRequired]_vars

(***************************************************************************)
(* The getters applied to the key K.                                       *)
(***************************************************************************)
\* a getter call and its record
Got(op, key, defaultValue, r) ==
  /\ nops < MaxOps
  /\ last' = [op |-> op, key |-> key, defaultValue |-> defaultValue, val |-> r.val,
              panic |-> r.panic]
  /\ nops' = nops + 1
  /\ UNCHANGED <<env, dst, OnEnvVarSet, DebugLogger>>

\* the key K is unset, empty, a number, a word, a boolean, a duration, 2^31
\* or 2^32
InitGetters ==
  /\ env \in { NoTag }
             \cup { (<<"K">> :> value) :
                      value \in { <<>>, <<"7">>, <<"-", "7">>, <<"x">>, <<"t", "r", "u", "e">>,
                                  <<"1", "m">>,
                                  <<"2", "1", "4", "7", "4", "8", "3", "6", "4", "8">>,
                                  <<"4", "2", "9", "4", "9", "6", "7", "2", "9", "6">> } }
  /\ dst = [type |-> PtrT(Inner), val |-> [nil |-> TRUE]]
  /\ OnEnvVarSet = FALSE
  /\ DebugLogger = FALSE
  /\ last = NoCall
  /\ nops = 0

NextGetters ==
  \/ \E value \in { <<>>, <<"7">> } : Set(<<"K">>, value)
  \/ Unset(<<"K">>)
  \/ \E d \in { <<>>, <<"d">> } : Got("GetOr", <<"K">>, d, GetOr(<<"K">>, d, env))
  \/ \E b \in BOOLEAN : Got("GetOrBool", <<"K">>, [b |-> b], GetOrBool(<<"K">>, [b |-> b], env))
  \/ \E d \in { [n |-> <<"9", "9">>] } : Got("GetOrInt", <<"K">>, d, GetOrInt(<<"K">>, d, env))
  \/ \E d \in { [n |-> <<"9", "9">>] } : Got("GetOrUint", <<"K">>, d, GetOrUint(<<"K">>, d, env))
  \/ \E d \in { [n |-> <<"9", "9">>] } : Got("GetOrInt64", <<"K">>, d, GetOrInt64(<<"K">>, d, env))
  \/ \E d \in { [n |-> <<"9", "9">>] } : Got("GetOrUint64", <<"K">>, d, GetOrUint64(<<"K">>, d, env))
  \/ \E d \in { <<"3", "h">>, <<"x">> } :
       Got("GetOrDuration", <<"K">>, d, GetOrDuration(<<"K">>, d, env))

SpecGetters == InitGetters /\ [][NextGetters]_vars

(***************************************************************************)
(* The test helpers SetForTest and UnsetForTest.  A cleanup closure holds  *)
(* what the helper captured: the key, the value found and whether one was  *)
(* found.  The record of the test holds the closures in the order they     *)
(* were made, the closures that have run, the environment before the first *)
(* helper call, whether the test body wrote the environment itself and     *)
(* whether the test has ended.                                             *)
(***************************************************************************)
MaxNest == 2

MaxManual == 2

\* SetForTest's cleanup restoring nothing but absence
cleanupSet_AlwaysUnset(c, e) == Unsetenv(e, c.key)

\* the cleanup closure of SetForTest
cleanupSet(c, e) == IF c.existed THEN Setenv(e, c.key, c.old) ELSE Unsetenv(e, c.key)

\* a cleanup closure: that of SetForTest, or that of UnsetForTest
cleanup(c, e) ==
  IF c.helper = "SetForTest" THEN cleanupSet(c, e)
  ELSE IF c.existed THEN Setenv(e, c.key, c.old) ELSE e

Helped(helper, t, key) ==
  /\ ~last.finished
  /\ Len(last.cleanups) < MaxNest
  /\ last' = [last EXCEPT !.op = helper,
                          !.cleanups = Append(@, [helper |-> helper, t |-> t, key |-> key,
                                                  old |-> LookupEnv(env, key).value,
                                                  existed |-> LookupEnv(env, key).found])]
  /\ UNCHANGED <<dst, OnEnvVarSet, DebugLogger, nops>>

SetForTest(t, key, value) ==
  /\ Helped("SetForTest", t, key)
  /\ env' = Setenv(env, key, value)

UnsetForTest(t, key) ==
  /\ Helped("UnsetForTest", t, key)
  /\ env' = Unsetenv(env, key)

\* the test calls the cleanup function a helper returned
CallCleanup(i) ==
  /\ ~last.finished
  /\ i \in 1..Len(last.cleanups)
  /\ Len(last.runs) < MaxManual
  /\ env' = cleanup(last.cleanups[i], env)
  /\ last' = [last EXCEPT !.op = "cleanup", !.runs = Append(@, i)]
  /\ UNCHANGED <<dst, OnEnvVarSet, DebugLogger, nops>>

\* the body of the test writes the variable itself
TestBodySet(key, value) ==
  /\ ~last.finished
  /\ Len(last.cleanups) > 0
  /\ env' = Setenv(env, key, value)
  /\ last' = [last EXCEPT !.op = "Set", !.touched = TRUE]
  /\ UNCHANGED <<dst, OnEnvVarSet, DebugLogger, nops>>

RECURSIVE RunRegistered(_, _, _)
\* testing runs the closures registered with t.Cleanup, last registered
\* first: the environment after them and the closures run
RunRegistered(cleanups, i, r) ==
  IF i = 0 THEN r
  ELSE IF cleanups[i].t = "nil" THEN RunRegistered(cleanups, i - 1, r)
  ELSE RunRegistered(cleanups, i - 1,
                     [env |-> cleanup(cleanups[i], r.env), runs |-> Append(r.runs, i)])

\* the test ends
EndOfTest ==
  /\ ~last.finished
  /\ Len(last.cleanups) > 0
  /\ LET done(r) == /\ env' = r.env
                     /\ last' = [last EXCEPT !.op = "Cleanup", !.finished = TRUE, !.runs = r.runs]
     IN  done(RunRegistered(last.cleanups, Len(last.cleanups), [env |-> env, runs |-> last.runs]))
  /\ UNCHANGED <<dst, OnEnvVarSet, DebugLogger, nops>>

InitForTest ==
  /\ env \in { NoTag } \cup { (<<"K">> :> value) : value \in { <<>>, <<"7">>, <<"8">> } }
  /\ dst = [type |-> PtrT(Inner), val |-> [nil |-> TRUE]]
  /\ OnEnvVarSet = FALSE
  /\ DebugLogger = FALSE
  /\ last = [op |-> "none", cleanups |-> <<>>, runs |-> <<>>, before |-> env,
             touched |-> FALSE, finished |-> FALSE]
  /\ nops = 0

NextForTest ==
  \/ \E t \in { "nil", "t" }, value \in { <<>>, <<"7">> } : SetForTest(t, <<"K">>, value)
  \/ \E t \in { "nil", "t" } : UnsetForTest(t, <<"K">>)
  \/ \E i \in 1..MaxNest : CallCleanup(i)
  \/ TestBodySet(<<"K">>, <<"9">>)
  \/ EndOfTest

SpecForTest == InitForTest /\ [][NextForTest]_vars

(***************************************************************************)
(* Parses of the destinations that tell the walker's branches apart: a     *)
(* nested struct that holds a pointer to a struct with a field of the      *)
(* root's name; a struct or a pointer to a struct, mapped to the key W or  *)
(* not; a field mapped to V, of several types, with and without a default  *)
(* and a required flag.                                                    *)
(***************************************************************************)
\* type Outer struct { F1 ...; G1 string `env:"A" required:"true"` }, with
\* F1 a Mid, type Mid struct { P *Inner }, an Inner or a *Inner;
\* type config struct { S nest } and its variants;
\* type config struct { V ... `env:"V"` } and its variants
WalkConfigs ==
  { StructT(<<"Outer">>,
            << Field(<<"F1">>, TRUE, t, NoTag),
               Field(<<"G1">>, TRUE, TString,
                     [env |-> <<"A">>, required |-> <<"t", "r", "u", "e">>]) >>) :
      t \in { StructT(<<"Mid">>, << Field(<<"P">>, TRUE, PtrT(Inner), NoTag) >>),
              Inner, PtrT(Inner) } }
  \cup { StructT(<<"config">>, << Field(<<"S">>, TRUE, t, tag) >>) :
           t \in { Nest, PtrT(Nest) }, tag \in { NoTag, [env |-> <<"W">>] } }
  \cup { StructT(<<"config">>, << Field(<<"V">>, TRUE, t, tag) >>) :
           t \in { TString, TInt, TBool, SliceT(TInt), PtrT(TInt32), PtrT(Unmarshaler) },
           tag \in { [env |-> <<"V">>],
                     [env |-> <<"V">>, envDefault |-> <<"7">>],
                     [env |-> <<"V">>, required |-> <<"t", "r", "u", "e">>],
                     [env |-> <<"V">>, required |-> <<"t", "r", "u", "e">>,
                      envDefault |-> <<"7">>] } }

InitWalk ==
  /\ env \in { NoTag, (<<"A">> :> <<"7">>), (<<"V">> :> <<"7">>), (<<"V">> :> <<>>),
               (<<"W">> :> <<"7">>) }
  /\ dst \in UNION { {[type |-> PtrT(t), val |-> [to |-> x]] : x \in Values(t)} :
                      t \in WalkConfigs }
  /\ OnEnvVarSet = FALSE
  /\ DebugLogger = FALSE
  /\ last = NoCall
  /\ nops = 0

NextWalk ==
  \/ \E key \in { <<"A">>, <<"V">>, <<"W">> }, value \in { <<>>, <<"7">> } : Set(key, value)
  \/ \E key \in { <<"A">>, <<"V">>, <<"W">> } : Unset(key)
  \/ AssignOnEnvVarSet(TRUE)
  \/ CallParse
  \/ \E prefix \in Prefixes : CallParseWithPrefix(prefix)

SpecWalk == InitWalk /\ [][NextWalk]_vars

(***************************************************************************)
(* Parses of a numeric field at the limits of its width.  A number is      *)
(* 2^pow or 2^pow - 1, negated or not.                                     *)
(***************************************************************************)
\* the numbers of the runs
Numbers == [neg : BOOLEAN, pow : {3, 31, 32, 63, 64}, less : BOOLEAN]

\* the number in base 10: 2^pow, or 2^pow - 1, after its sign
TextOf(n) ==
  (IF n.neg THEN <<"-">> ELSE <<>>)
  \o CASE n.pow = 3 /\ ~n.less -> <<"8">>
       [] n.pow = 3 /\ n.less -> <<"7">>
       [] n.pow = 31 /\ ~n.less -> <<"2", "1", "4", "7", "4", "8", "3", "6", "4", "8">>
       [] n.pow = 31 /\ n.less -> <<"2", "1", "4", "7", "4", "8", "3", "6", "4", "7">>
       [] n.pow = 32 /\ ~n.less -> <<"4", "2", "9", "4", "9", "6", "7", "2", "9", "6">>
       [] n.pow = 32 /\ n.less -> <<"4", "2", "9", "4", "9", "6", "7", "2", "9", "5">>
       [] n.pow = 63 /\ ~n.less -> <<"9", "2", "2", "3", "3", "7", "2", "0", "3", "6", "8", "5", "4", "7", "7", "5", "8", "0", "8">>
       [] n.pow = 63 /\ n.less -> <<"9", "2", "2", "3", "3", "7", "2", "0", "3", "6", "8", "5", "4", "7", "7", "5", "8", "0", "7">>
       [] n.pow = 64 /\ ~n.less -> <<"1", "8", "4", "4", "6", "7", "4", "4", "0", "7", "3", "7", "0", "9", "5", "5", "1", "6", "1", "6">>
       [] n.pow = 64 /\ n.less -> <<"1", "8", "4", "4", "6", "7", "4", "4", "0", "7", "3", "7", "0", "9", "5", "5", "1", "6", "1", "5">>

\* the types of a field V `env:"V"` of the numeric runs
NumTypes == { TInt, TUint, TInt64, TUint64, TDuration, SliceT(TInt) }

\* type config struct { V ... `env:"V"` }; the values of V are the numbers,
\* lists of two numbers, a duration and a word
InitNumbers ==
  /\ env \in { NoTag }
             \cup { (<<"V">> :> TextOf(n)) : n \in Numbers }
             \cup { (<<"V">> :> (<<"7", ",">> \o TextOf(n))) : n \in { m \in Numbers : m.pow = 31 } }
             \cup { (<<"V">> :> <<"1", "m">>), (<<"V">> :> <<"x">>) }
  /\ dst \in { [type |-> PtrT(t), val |-> [to |-> Zero(t)]] :
                t \in { StructT(<<"config">>, << Field(<<"V">>, TRUE, u, [env |-> <<"V">>]) >>) :
                          u \in NumTypes } }
  /\ OnEnvVarSet = FALSE
  /\ DebugLogger = FALSE
  /\ last = NoCall
  /\ nops = 0

NextNumbers ==
  \/ \E value \in { <<"7">>, <<"1", "m">> } : Set(<<"V">>, value)
  \/ Unset(<<"V">>)
  \/ CallParse

SpecNumbers == InitNumbers /\ [][NextNumbers]_vars

\* the conversion runs: a one-field destination, the key V unset or set
InitConv ==
  /\ env \in ConvEnvs
  /\ dst \in ConvDests
  /\ OnEnvVarSet = FALSE
  /\ DebugLogger = FALSE
  /\ last = NoCall
  /\ nops = 0

NextConv ==
  \/ \E value \in ConvValues : Set(<<"V">>, value)
  \/ \E funcMap \in ConvFuncMaps : CallParseWithFuncs(funcMap)

SpecConv == InitConv /\ [][NextConv]_vars

(***************************************************************************)
(* Slices: a destination with one slice field, with and without a          *)
(* separator of its own, and every short string over digits, letters and   *)
(* the two separators under its key.                                       *)
(***************************************************************************)
SliceAlphabet == {"1", "x", ",", ":"}

SliceStrings == UNION { [1..n -> SliceAlphabet] : n \in 1..MaxLen }

SliceConfigs ==
  { StructT(<<"config">>, << Field(<<"V">>, TRUE, SliceT(t), tag) >>) :
      t \in {TString, TInt},
      tag \in { [env |-> <<"V">>], [env |-> <<"V">>, envSeparator |-> <<":">>] } }

SliceDests == { [type |-> PtrT(t), val |-> [to |-> Zero(t)]] : t \in SliceConfigs }

InitSlice ==
  /\ env \in { NoTag } \cup { (<<"V">> :> value) : value \in SliceStrings }
  /\ dst \in SliceDests
  /\ OnEnvVarSet = FALSE
  /\ DebugLogger = FALSE
  /\ last = NoCall
  /\ nops = 0

NextSlice ==
  \/ \E value \in { <<"1", ":", "1">>, <<"x", ",", "1">> } : Set(<<"V">>, value)
  \/ Unset(<<"V">>)
  \/ CallParse

SpecSlice == InitSlice /\ [][NextSlice]_vars

(***************************************************************************)
(* Rendering: ParseErrors.Error applied to collections of errors.          *)
(***************************************************************************)
ErrSet ==
  { ErrNotAStructPtr, ErrUnsupportedType, ErrUnsupportedSliceType,
    FieldError(<<"V">>, <<"config">>, ErrUnsupportedType),
    NumError("ParseInt", <<"x">>, "invalid syntax") }

ErrLists ==
  UNION { [1..n -> ErrSet] : n \in 0..MaxErrs }
  \cup { [i \in 1..n |-> e] : n \in 1..MaxRun, e \in ErrSet }

\* pe.Error()
Error(pe) ==
  /\ nops < MaxOps
  /\ last' = [op |-> "Error", pe |-> pe, out |-> ErrorString(ParseErrors(pe))]
  /\ nops' = nops + 1
  /\ UNCHANGED <<env, dst, OnEnvVarSet, DebugLogger>>

InitErrors ==
  /\ env = NoTag
  /\ dst = [type |-> PtrT(Inner), val |-> [nil |-> TRUE]]
  /\ OnEnvVarSet = FALSE
  /\ DebugLogger = FALSE
  /\ last = NoCall
  /\ nops = 0

NextErrors == \E pe \in ErrLists : Error(pe)

SpecErrors == InitErrors /\ [][NextErrors]_vars

(***************************************************************************)
(* Expansion: a destination with one field of key V, with and without a    *)
(* default and an envExpand tag, and an environment whose values hold      *)
(* references to A and B.                                                  *)
(***************************************************************************)
RefA == <<"$", "{", "A", "}">>

RefB == <<"$", "{", "B", "}">>

ExpandStrings ==
  { <<"x">>, <<"1">>, RefA, RefB, RefA \o <<":">> \o RefB, <<"x">> \o RefB, RefB \o RefB }

ExpandTags ==
  { d @@ x @@ [env |-> <<"V">>] :
      d \in { NoTag, [envDefault |-> RefA \o <<":">> \o RefB], [envDefault |-> RefB] },
      x \in { NoTag, [envExpand |-> <<"t", "r", "u", "e">>],
              [envExpand |-> <<"T", "r", "u", "e">>],
              [envExpand |-> <<"f", "a", "l", "s", "e">>] } }

ExpandConfigs ==
  { StructT(<<"config">>, << Field(<<"V">>, TRUE, t, tag) >>) :
      t \in {TString, TInt}, tag \in ExpandTags }

ExpandDests == { [type |-> PtrT(t), val |-> [to |-> Zero(t)]] : t \in ExpandConfigs }

ExpandEnvs ==
  { v @@ a @@ b :
      v \in { NoTag } \cup { (<<"V">> :> value) : value \in ExpandStrings },
      a \in { NoTag, (<<"A">> :> <<"x">>), (<<"A">> :> RefB) },
      b \in { NoTag, (<<"B">> :> <<"1">>) } }

InitExpand ==
  /\ env \in ExpandEnvs
  /\ dst \in ExpandDests
  /\ OnEnvVarSet = FALSE
  /\ DebugLogger = FALSE
  /\ last = NoCall
  /\ nops = 0

NextExpand ==
  \/ Set(<<"A">>, <<"1">>)
  \/ Unset(<<"B">>)
  \/ CallParse

SpecExpand == InitExpand /\ [][NextExpand]_vars

(***************************************************************************)
(* What the specification says of a parse call, stated over the record of  *)
(* the last call.  A site is a field the walk is to resolve: a field of    *)
(* the destination, of a nested struct without a mapping of its own, or of *)
(* the struct behind a non-nil pointer field without a mapping of its own. *)
(***************************************************************************)
ParseOps == {"Parse", "ParseWithPrefix", "ParseWithFuncs", "ParseWithPrefixFuncs"}

\* the last call's destination was a non-nil pointer to a struct
StructPtrGiven ==
  /\ dst.type.kind = "ptr"
  /\ "to" \in DOMAIN last.pre
  /\ dst.type.elem.kind = "struct"

\* the last call was a parse that got past the checks of its arguments
Walked ==
  /\ last.op \in ParseOps
  /\ (last.prefix = <<>> \/ last.prefix[Len(last.prefix)] = "_")
  /\ StructPtrGiven

RECURSIVE Sites(_, _, _, _)
\* the sites of a struct of type t with value v, reached by the path and
\* by the steps ix (a field index, or 0 to follow a pointer)
Sites(t, v, path, ix) ==
  UNION { LET f == t.fields[i]
              x == v.f[i]
              p == JoinPath(path, f.name)
              mapped == TagGet(f.tag, "env") # <<>>
          IN  IF ~f.exported THEN {}
              ELSE IF f.type.kind = "struct" /\ ~mapped
              THEN Sites(f.type, x, p, Append(ix, i))
              ELSE IF f.type.kind = "ptr" /\ IsNil(x) THEN {}
              ELSE IF f.type.kind = "ptr" /\ f.type.elem.kind = "struct" /\ ~mapped
              THEN Sites(f.type.elem, x.to, p, ix \o <<i, 0>>)
              ELSE {[path |-> p, ix |-> Append(ix, i), owner |-> t.name, field |-> f,
                     pre |-> x]}
        : i \in 1..Len(t.fields) }

\* the sites of the last call's destination
LastSites == Sites(dst.type.elem, last.pre.to, <<>>, <<>>)

RECURSIVE ValueAt(_, _)
\* the value reached from v by the steps ix
ValueAt(v, ix) ==
  IF Len(ix) = 0 THEN v
  ELSE IF ix[1] = 0 THEN ValueAt(v.to, Tail(ix))
  ELSE ValueAt(v.f[ix[1]], Tail(ix))

\* the value the site has after the last call
Post(site) == ValueAt(dst.val.to, site.ix)

Mapped(site) == TagGet(site.field.tag, "env") # <<>>

\* the key of a site: prefix + env tag
KeyOf(site) == last.prefix \o TagGet(site.field.tag, "env")

HasRequiredTag(site) == "required" \in DOMAIN site.field.tag

BadRequired(site) ==
  HasRequiredTag(site) /\ site.field.tag.required \notin (TrueStrings \cup FalseStrings)

Required(site) == HasRequiredTag(site) /\ site.field.tag.required \in TrueStrings

KeyAbsent(site) == KeyOf(site) \notin DOMAIN env

DeclaredDefault(site) == TagGet(site.field.tag, "envDefault")

\* the string a site resolves to: the environment's value, else the default
Resolved(site) == IF KeyAbsent(site) THEN DeclaredDefault(site) ELSE env[KeyOf(site)]

\* the conversion of the resolved string to the site's declared type
Conversion(site) == set(site.pre, TRUE, site.field, Resolved(site), last.funcMap)

MissingRequired(site) == Mapped(site) /\ Required(site) /\ KeyAbsent(site)

ConversionFails(site) ==
  /\ Mapped(site) /\ ~BadRequired(site) /\ ~MissingRequired(site)
  /\ Resolved(site) # <<>>
  /\ Conversion(site).err # NoErr

\* the site has a field-level failure
Fails(site) == BadRequired(site) \/ MissingRequired(site) \/ ConversionFails(site)

\* the site's own resolution and conversion succeed
Succeeds(site) ==
  /\ Mapped(site) /\ ~BadRequired(site) /\ ~MissingRequired(site)
  /\ Resolved(site) # <<>>
  /\ Conversion(site).err = NoErr

RECURSIVE Leaves(_)
\* the field-level errors held by an error, in order, aggregates flattened
Leaves(e) ==
  IF e.kind = "nil" THEN <<>>
  ELSE IF e.kind # "ParseErrors" THEN <<e>>
  ELSE IF Len(e.errs) = 0 THEN <<>>
  ELSE Leaves(e.errs[1]) \o Leaves(ParseErrors(Tail(e.errs)))

\* the last call's error reports a failure of the site's field
Reported(site) ==
  \E k \in 1..Len(Leaves(last.err)) :
    LET leaf == Leaves(last.err)[k]
    IN  /\ leaf.kind = "field"
        /\ HasSuffix(leaf.path, site.field.name)

\* the rendered message of the last call's error
LastMessage == ErrorString(last.err)

\* the last call's error holds a field error of the site's field with a
\* cause of the given kind
ReportedAs(site, kind) ==
  \E k \in 1..Len(Leaves(last.err)) :
    LET leaf == Leaves(last.err)[k]
    IN  /\ leaf.kind = "field"
        /\ HasSuffix(leaf.path, site.field.name)
        /\ leaf.err.kind = kind

\* C1: every field-level failure found anywhere in the walk, also in nested
\* structs and behind non-nil pointer fields, is part of the aggregate error
\* that the parse returns; a failing field never stops the walk.
C1_EveryFailureReported ==
  Walked => \A site \in LastSites : Fails(site) => Reported(site)

\* C2: when the parse returns an error, every field whose own resolution and
\* conversion succeed is still set to its converted value, wherever the
\* failing field is.
C2_SuccessfulFieldsApplied ==
  (Walked /\ last.err # NoErr) =>
    \A site \in LastSites : Succeeds(site) => Post(site) = Conversion(site).val

\* C3: for every required field whose key is absent the parse returns an
\* error whose message contains the field's full dot-joined path from the
\* destination root, with the owning struct's name, and the key prefix + tag.
C3_MissingRequiredMessage ==
  Walked =>
    \A site \in LastSites :
      MissingRequired(site) =>
        /\ last.err # NoErr
        /\ Contains(LastMessage, <<"field '">> \o site.path \o <<"' in ">> \o site.owner)
        /\ Contains(LastMessage, KeyOf(site))

\* C4: a tagged, non-required field whose key is absent is set to its declared
\* default converted to the field's type; when the key is present with a
\* non-empty value the field is set to the converted environment value.
C4_DefaultApplied ==
  Walked =>
    \A site \in LastSites :
      ( /\ Mapped(site) /\ ~HasRequiredTag(site)
        /\ Resolved(site) # <<>>
        /\ Conversion(site).err = NoErr )
      => /\ Post(site) = Conversion(site).val
         /\ KeyAbsent(site) =>
              Post(site) = set(site.pre, TRUE, site.field, DeclaredDefault(site), last.funcMap).val
         /\ ~KeyAbsent(site) =>
              Post(site) = set(site.pre, TRUE, site.field, env[KeyOf(site)], last.funcMap).val

\* C5: a required field whose key is absent fails with the missing-required
\* error even when it declares a default, and the field is left unchanged.
C5_RequiredBeatsDefault ==
  Walked =>
    \A site \in LastSites :
      MissingRequired(site) => ReportedAs(site, "missing") /\ Post(site) = site.pre

\* C6: ParseWithPrefix and ParseWithPrefixFuncs with a non-empty prefix that
\* does not end in '_' return the prefix error at once, whatever the
\* destination: no lookup, no change of the destination, no sink call; the
\* empty prefix and every prefix ending in '_' pass the check.
C6_PrefixChecked ==
  last.op \in {"ParseWithPrefix", "ParseWithPrefixFuncs"} =>
    IF last.prefix # <<>> /\ last.prefix[Len(last.prefix)] # "_"
    THEN /\ last.err.kind = "prefix"
         /\ Contains(last.err.msg, <<"prefix must end with underscore, got: ">>)
         /\ Contains(last.err.msg, last.prefix)
         /\ last.looks = <<>>
         /\ last.events = <<>>
         /\ dst.val = last.pre
         /\ ~last.panic
    ELSE last.err.kind # "prefix"

\* a bad prefix was rejected although the destination had a defaulted field
\* and both sinks were set
C6_Witness ==
  /\ last.op = "ParseWithPrefix"
  /\ last.prefix = <<"P">>
  /\ last.err.kind = "prefix"
  /\ DebugLogger /\ OnEnvVarSet
  /\ StructPtrGiven
  /\ \E site \in LastSites : DeclaredDefault(site) # <<>> /\ ~HasRequiredTag(site)

\* C7: the parse functions (with a valid prefix) and GetAllVars return
\* exactly ErrNotAStructPtr, with no lookup, mutation or sink call, whenever
\* the destination is not a pointer to a struct.
C7_NotAStructPtr ==
  ( /\ last.op \in ParseOps \cup {"GetAllVars"}
    /\ last.op \in ParseOps => (last.prefix = <<>> \/ last.prefix[Len(last.prefix)] = "_")
    /\ ~StructPtrGiven )
  => /\ last.err = [kind |-> "ErrNotAStructPtr", msg |-> <<"expected a pointer to a Struct">>]
     /\ last.looks = <<>>
     /\ last.events = <<>>
     /\ dst.val = last.pre
     /\ ~last.panic
     /\ last.op = "GetAllVars" => last.vars = <<>>

\* a parse of a nil pointer to a struct returned ErrNotAStructPtr
C7_Witness ==
  /\ last.op = "ParseWithPrefixFuncs"
  /\ last.prefix = <<"P", "_">>
  /\ dst.type.kind = "ptr" /\ dst.type.elem.kind = "struct" /\ IsNil(dst.val)
  /\ last.err.kind = "ErrNotAStructPtr"
  /\ <<"P", "_", "A">> \in DOMAIN env

\* C8: the aggregate error holds exactly one entry per failing field: when k
\* fields fail across the whole walk the returned error has exactly k
\* entries, each the failure of one field.
C8_OneEntryPerFailure ==
  (Walked /\ last.err # NoErr) =>
    /\ last.err.kind = "ParseErrors"
    /\ Len(last.err.errs) = Cardinality({site \in LastSites : Fails(site)})
    /\ \A k \in 1..Len(last.err.errs) : last.err.errs[k].kind = "field"

\* C9: a field whose required tag is no boolean gets an invalid-metadata error
\* naming the tag value and the field, whether or not its key is set; the
\* field is not set.
C9_BadRequiredReported ==
  Walked =>
    \A site \in LastSites :
      BadRequired(site) =>
        /\ ReportedAs(site, "badRequired")
        /\ Contains(LastMessage, <<"invalid required tag ">> \o Quote(site.field.tag.required))
        /\ Post(site) = site.pre

RECURSIVE NoTags(_)
\* no field of the struct type, at any depth, carries a tag
NoTags(t) ==
  \A i \in 1..Len(t.fields) :
    LET f == t.fields[i]
    IN  /\ DOMAIN f.tag = {}
        /\ f.type.kind = "struct" => NoTags(f.type)
        /\ (f.type.kind = "ptr" /\ f.type.elem.kind = "struct") => NoTags(f.type.elem)

\* C10: for a struct none of whose fields carries a tag, Parse and
\* ParseWithPrefix with any accepted prefix and any environment return no
\* error and leave every field at its zero value.
C10_UntaggedUntouched ==
  ( /\ last.op \in {"Parse", "ParseWithPrefix"}
    /\ (last.prefix = <<>> \/ last.prefix[Len(last.prefix)] = "_")
    /\ StructPtrGiven
    /\ NoTags(dst.type.elem)
    /\ last.pre.to = Zero(dst.type.elem) )
  => /\ last.err = NoErr
     /\ dst.val.to = Zero(dst.type.elem)

(***************************************************************************)
(* The converter, stated over the record of the last call.                 *)
(***************************************************************************)
RECURSIVE NilSites(_, _, _, _)
\* the exported nil pointer fields, as sites
NilSites(t, v, path, ix) ==
  UNION { LET f == t.fields[i]
              x == v.f[i]
              p == JoinPath(path, f.name)
              mapped == TagGet(f.tag, "env") # <<>>
          IN  IF ~f.exported THEN {}
              ELSE IF f.type.kind = "struct" /\ ~mapped
              THEN NilSites(f.type, x, p, Append(ix, i))
              ELSE IF f.type.kind = "ptr" /\ IsNil(x)
              THEN {[path |-> p, ix |-> Append(ix, i), owner |-> t.name, field |-> f,
                     pre |-> x]}
              ELSE IF f.type.kind = "ptr" /\ f.type.elem.kind = "struct" /\ ~mapped
              THEN NilSites(f.type.elem, x.to, p, ix \o <<i, 0>>)
              ELSE {}
        : i \in 1..Len(t.fields) }

\* the nil pointer fields of the last call's destination
LastNilSites == NilSites(dst.type.elem, last.pre.to, <<>>, <<>>)

\* the sites of the last call's destination, nil pointers included
ConvSites == LastSites \cup LastNilSites

\* the site reaches the converter: it is mapped, its resolution succeeds and
\* its resolved string is not empty
Converts(site) ==
  /\ Mapped(site) /\ ~BadRequired(site) /\ ~MissingRequired(site)
  /\ Resolved(site) # <<>>

\* the invocations of custom parsers during the last call, in order
ParserCalls == SelectSeq(last.events, LAMBDA e : e.sink = "ParserFunc")

\* the conversion of the site's resolved string by the built-in rules alone
BuiltIn(site) == set(site.pre, TRUE, site.field, Resolved(site), <<>>)

\* C11: a custom parser registered for a field's exact declared type is used
\* for that field instead of any built-in conversion, and it is never invoked
\* for a field of another type, which the built-in rules convert.
C11_CustomParserPreferred ==
  Walked =>
    /\ \A site \in ConvSites :
         Converts(site) =>
           IF site.field.type \in DOMAIN last.funcMap
           THEN LET r == ApplyParser(last.funcMap[site.field.type], Resolved(site))
                IN  /\ \E k \in 1..Len(ParserCalls) :
                         /\ ParserCalls[k].type = site.field.type
                         /\ ParserCalls[k].value = Resolved(site)
                    /\ r.err = NoErr => Post(site) = r.val
                    /\ r.err # NoErr => ReportedAs(site, "customParser")
           ELSE /\ Post(site) = BuiltIn(site).val
                /\ BuiltIn(site).err # NoErr => Reported(site)
    /\ \A k \in 1..Len(ParserCalls) :
         \E site \in ConvSites :
           /\ Converts(site)
           /\ site.field.type = ParserCalls[k].type
           /\ site.field.type \in DOMAIN last.funcMap

\* C12: a field whose conversion fails keeps exactly the value it had before
\* the parse, a pointer field that was nil before the parse included.
C12_FailingFieldKept ==
  Walked =>
    \A site \in ConvSites : ConversionFails(site) => Post(site) = site.pre

(***************************************************************************)
(* Slices, stated over the record of the last call.                        *)
(***************************************************************************)
\* the separator of a site: its envSeparator, the comma when none is declared
SeparatorOf(site) ==
  IF TagGet(site.field.tag, "envSeparator") = <<>> THEN <<",">>
  ELSE TagGet(site.field.tag, "envSeparator")

\* the positions of the one-token separator sep in s, in order, with the
\* position before the string and the one after it
Cuts(s, sep) ==
  LET at == {k \in 1..Len(s) : s[k] = sep[1]}
      RECURSIVE sorted(_, _)
      sorted(from, left) ==
        IF left = {} THEN <<>>
        ELSE IF from \in left THEN <<from>> \o sorted(from + 1, left \ {from})
        ELSE sorted(from + 1, left)
  IN  <<0>> \o sorted(1, at) \o <<Len(s) + 1>>

\* the pieces of s between the occurrences of the one-token separator sep
Pieces(s, sep) ==
  [j \in 1..(Len(Cuts(s, sep)) - 1) |-> SubSeq(s, Cuts(s, sep)[j] + 1, Cuts(s, sep)[j + 1] - 1)]

RECURSIVE Join(_, _)
\* strings.Join
Join(pieces, sep) ==
  IF Len(pieces) = 0 THEN <<>>
  ELSE IF Len(pieces) = 1 THEN pieces[1]
  ELSE pieces[1] \o sep \o Join(Tail(pieces), sep)

\* the site is a slice field that reaches the converter
SliceSite(site) == Converts(site) /\ site.field.type.kind = "slice"

\* C13: a slice field with a non-empty resolved string is set to the
\* elementwise conversion, in order, of the string split at every occurrence
\* of the field's separator (the comma when none is declared) and at nothing
\* else; joining a []string result with the separator gives the string back;
\* if any element fails to convert the whole field fails.
C13_SliceSplit ==
  Walked =>
    \A site \in ConvSites :
      SliceSite(site) =>
        LET pieces == Pieces(Resolved(site), SeparatorOf(site))
            elem == site.field.type.elem
        IN  IF elem = TString
            THEN /\ Post(site) = [e |-> [j \in 1..Len(pieces) |-> [s |-> pieces[j]]]]
                 /\ Join([j \in 1..Len(Post(site).e) |-> Post(site).e[j].s],
                         SeparatorOf(site)) = Resolved(site)
                 /\ ~Reported(site)
            ELSE IF \A j \in 1..Len(pieces) : ParseInt(pieces[j], 32).err = NoErr
            THEN /\ Post(site) = [e |-> [j \in 1..Len(pieces) |-> [n |-> ParseInt(pieces[j], 32).n]]]
                 /\ ~Reported(site)
            ELSE /\ Post(site) = site.pre
                 /\ Reported(site)

\* a []string field with separator ":" was set from a string that holds a
\* comma and a colon, and an []int field failed on its second element
C13_Witness ==
  /\ Walked
  /\ \E site \in ConvSites :
       /\ SliceSite(site)
       /\ SeparatorOf(site) = <<":">>
       /\ Resolved(site) = <<"1", ":", "x">>
       /\ \/ site.field.type.elem = TString /\ Len(Post(site).e) = 2
          \/ site.field.type.elem = TInt /\ Reported(site)

(***************************************************************************)
(* The rendering of an aggregate, stated over the record of the last call. *)
(***************************************************************************)
\* the decimal numeral of a number below 20
Numeral(i) == IF i < 10 THEN <<Digits[i + 1]>> ELSE <<"1", Digits[i - 9]>>

RECURSIVE NumberedTo(_, _)
\* the lines of the entries 1..n of pe, each "\n  k. message"
NumberedTo(pe, n) ==
  IF n = 0 THEN <<>>
  ELSE NumberedTo(pe, n - 1) \o <<"\n  ">> \o Numeral(n) \o <<". ">> \o pe[n].msg

\* C14: an empty ParseErrors renders as the empty string, one with a single
\* error as exactly that error's message, one with n >= 2 errors as the
\* header "multiple parsing errors (n):" followed by every entry on its own
\* line, numbered 1..n in the order of the collection.
C14_Rendering ==
  last.op = "Error" =>
    LET n == Len(last.pe)
    IN  /\ n = 0 => last.out = <<>>
        /\ n = 1 => last.out = last.pe[1].msg
        /\ n >= 2 => last.out = <<"multiple parsing errors (">> \o Numeral(n) \o <<"):">>
                                 \o NumberedTo(last.pe, n)

\* a collection of three different errors has been rendered
C14_Witness ==
  /\ last.op = "Error"
  /\ Len(last.pe) = 3
  /\ last.pe[1] # last.pe[2] /\ last.pe[2] # last.pe[3] /\ last.pe[1] # last.pe[3]
  /\ Len(last.out) > 0

(***************************************************************************)
(* Nil pointer fields.                                                     *)
(***************************************************************************)
\* the site's resolution succeeds with the empty string
ResolvesEmpty(site) ==
  /\ ~BadRequired(site)
  /\ ~(Required(site) /\ KeyAbsent(site))
  /\ Resolved(site) = <<>>

\* C15, as stated: a nil pointer field is skipped without error, whatever its
\* tags and whatever the environment holds: it stays nil and no entry of the
\* aggregate error is about it.
C15_NilPointerSkipped ==
  Walked =>
    \A site \in LastNilSites : Post(site) = site.pre /\ ~Reported(site)

\* C15, amended: a nil pointer field whose resolved string is empty is
\* skipped without error: it stays nil and no entry of the aggregate error is
\* about it.
C15_NilPointerSkippedWhenEmpty ==
  Walked =>
    \A site \in LastNilSites :
      ResolvesEmpty(site) => Post(site) = site.pre /\ ~Reported(site)

\* a parse has walked over a nil pointer field with an env tag whose key is
\* unset and left it nil
C15_Witness ==
  /\ Walked
  /\ \E site \in LastNilSites :
       /\ Mapped(site) /\ ResolvesEmpty(site)
       /\ IsNil(Post(site))
       /\ last.err = NoErr

(***************************************************************************)
(* Unexported fields.                                                      *)
(***************************************************************************)
RECURSIVE Hidden(_, _, _, _)
\* the unexported fields of a struct of type t with value v and the fields
\* of its unexported nested structs (inside marks such a struct), as sites
Hidden(t, v, ix, inside) ==
  UNION { LET f == t.fields[i]
              x == v.f[i]
              here == IF inside \/ ~f.exported
                      THEN {[path |-> f.name, ix |-> Append(ix, i), owner |-> t.name,
                             field |-> f, pre |-> x]}
                      ELSE {}
          IN  IF f.type.kind = "struct"
              THEN here \cup Hidden(f.type, x, Append(ix, i), inside \/ ~f.exported)
              ELSE here
        : i \in 1..Len(t.fields) }

\* the unexported fields of the last call's destination
LastHidden == Hidden(dst.type.elem, last.pre.to, <<>>, FALSE)

\* C16: an unexported field, or a field of an unexported nested struct, is
\* never assigned and never makes the parse fail or halt abnormally, also
\* when it carries an env tag whose key is set.
C16_UnexportedSkipped ==
  Walked =>
    /\ LastHidden # {} => ~last.panic
    /\ \A site \in LastHidden : Post(site) = site.pre /\ ~Reported(site)

(***************************************************************************)
(* Unsupported types.                                                      *)
(***************************************************************************)
\* the kinds the built-in conversions cover
BuiltInKinds == {"string", "bool", "int", "uint", "int64", "uint64"}

\* the type, or the type it points to, declares UnmarshalText
Deserializes(t) ==
  \/ "tu" \in DOMAIN t
  \/ t.kind = "ptr" /\ "tu" \in DOMAIN t.elem

\* no conversion exists for the type: the sentinel it is rejected with
Sentinel(t) ==
  IF t.kind = "slice"
  THEN IF t.elem.kind \in BuiltInKinds \/ Deserializes(t.elem) THEN "none"
       ELSE "ErrUnsupportedSliceType"
  ELSE IF t.kind \in BuiltInKinds \/ Deserializes(t) THEN "none"
  ELSE "ErrUnsupportedType"

\* C17: a field with a non-empty resolved value whose type has no registered
\* custom parser, is no built-in scalar or slice type and does not implement
\* text deserialization fails with an error of its field that wraps
\* ErrUnsupportedType (ErrUnsupportedSliceType for a slice of an unsupported
\* element type); int32 is rejected this way.
C17_UnsupportedRejected ==
  Walked =>
    \A site \in ConvSites :
      ( /\ Converts(site)
        /\ site.field.type \notin DOMAIN last.funcMap
        /\ Sentinel(site.field.type) # "none" ) =>
          ReportedAs(site, Sentinel(site.field.type))

(***************************************************************************)
(* Expansion, stated over the record of the last call.                     *)
(***************************************************************************)
\* the site's expansion flag is set: envExpand is "true" in any letter case
FlagSet(site) ==
  TagGet(site.field.tag, "envExpand") \in
    { <<"t", "r", "u", "e">>, <<"T", "r", "u", "e">>, <<"T", "R", "U", "E">> }

\* every "$" of s starts a reference ${N} with a one-letter name N
OnlyReferences(s) ==
  \A k \in 1..Len(s) :
    s[k] = "$" => /\ k + 3 <= Len(s)
                  /\ s[k + 1] = "{"
                  /\ s[k + 2] \in {"A", "B"}
                  /\ s[k + 3] = "}"

RECURSIVE Substituted(_)
\* s with every reference ${N} replaced by the environment's value of N,
\* nothing for an unset N
Substituted(s) ==
  IF Len(s) = 0 THEN <<>>
  ELSE IF s[1] = "$"
  THEN (IF <<s[3]>> \in DOMAIN env THEN env[<<s[3]>>] ELSE <<>>)
       \o Substituted(SubSeq(s, 5, Len(s)))
  ELSE <<s[1]>> \o Substituted(Tail(s))

\* the string the converter is to get for the site
Expanded(site) ==
  IF FlagSet(site) THEN Substituted(Resolved(site)) ELSE Resolved(site)

\* C18: for a field whose expansion flag is set, every ${NAME} of the
\* resolved string, from the environment or from the default, is replaced
\* by the environment's value of NAME before conversion; without the flag
\* the resolved string is converted verbatim.
C18_Expansion ==
  Walked =>
    \A site \in LastSites :
      ( /\ Mapped(site) /\ ~BadRequired(site) /\ ~MissingRequired(site)
        /\ OnlyReferences(Resolved(site)) ) =>
          LET r == set(site.pre, TRUE, site.field, Expanded(site), <<>>)
          IN  IF Expanded(site) = <<>> THEN Post(site) = site.pre /\ ~Reported(site)
              ELSE IF r.err = NoErr THEN Post(site) = r.val /\ ~Reported(site)
              ELSE Post(site) = site.pre /\ Reported(site)

\* the default "${A}:${B}" of a field with the flag has been expanded to
\* "x:1"
C18_Witness ==
  /\ Walked
  /\ \E site \in LastSites :
       /\ FlagSet(site) /\ KeyAbsent(site)
       /\ Resolved(site) = RefA \o <<":">> \o RefB
       /\ Post(site) = [s |-> <<"x", ":", "1">>]

(***************************************************************************)
(* Introspection, stated over the record of the last call.                 *)
(***************************************************************************)
\* the last call was a GetAllVars on a non-nil pointer to a struct
Listed == last.op = "GetAllVars" /\ StructPtrGiven

\* the fields with an env mapping that a parse of the destination resolves
MappedSites == {site \in LastSites : Mapped(site)}

\* C19: GetAllVars returns exactly one entry for every field with an env
\* mapping, nested ones included, with Name = prefix + env tag and FieldPath
\* the dot-joined path, and the names it returns are the mapped keys a parse
\* of the same destination with the same prefix reads, those of the structs
\* behind non-nil pointer fields included.
C19_AllVarsListed ==
  Listed =>
    /\ last.err = NoErr
    /\ \A site \in MappedSites :
         /\ Cardinality({k \in 1..Len(last.vars) : last.vars[k].FieldPath = site.path}) = 1
         /\ \A k \in 1..Len(last.vars) :
              last.vars[k].FieldPath = site.path => last.vars[k].Name = KeyOf(site)
    /\ \A k \in 1..Len(last.vars) :
         \E site \in MappedSites : last.vars[k].FieldPath = site.path
    /\ {last.vars[k].Name : k \in 1..Len(last.vars)} = {KeyOf(site) : site \in MappedSites}

RECURSIVE Declared(_, _, _)
\* what the struct type t declares: an entry for each field with an env tag,
\* of t and of the struct types of its fields, computed from the type alone
Declared(t, path, prefix) ==
  UNION { LET f == t.fields[i]
              p == JoinPath(path, f.name)
              has(key) == key \in DOMAIN f.tag /\ f.tag[key] # <<>>
              own == IF has("env")
                     THEN {[Name       |-> prefix \o f.tag.env,
                            FieldName  |-> f.name,
                            FieldPath  |-> p,
                            Required   |-> has("required") /\ f.tag.required \in TrueStrings,
                            Default    |-> IF has("envDefault") THEN f.tag.envDefault ELSE <<>>,
                            Type       |-> f.type.name,
                            HasDefault |-> has("envDefault")]}
                     ELSE {}
          IN  IF f.type.kind = "struct" THEN own \cup Declared(f.type, p, prefix) ELSE own
        : i \in 1..Len(t.fields) }

RequiredKeys == {KeyOf(site) : site \in {x \in MappedSites : Required(x)}}

\* the error holds a missing-required failure
HasMissing(e) ==
  \E k \in 1..Len(Leaves(e)) :
    /\ Leaves(e)[k].kind = "field"
    /\ Leaves(e)[k].err.kind = "missing"

\* the last call was a ValidateRequired on a non-nil pointer to a struct
Validated == last.op = "ValidateRequired" /\ StructPtrGiven

\* a step that validates, and a step that parses right after a validation
\* that returned nil
ValidatedThenParsed ==
  /\ (Validated' /\ nops' # nops) =>
        (last'.err = NoErr <=> \A key \in RequiredKeys' : key \in DOMAIN env)
  /\ ( /\ Validated /\ last.err = NoErr
       /\ last'.op \in ParseOps /\ last'.prefix = last.prefix ) =>
         ~HasMissing(last'.err)

\* C21: ValidateRequired returns nil exactly when every required key is
\* present in the environment, whatever its value (the empty string
\* included), and when it returned nil, a parse of the same destination with
\* the same prefix that follows at once reports no missing-required failure.
C21_ValidateRequired == [][ValidatedThenParsed]_vars

(***************************************************************************)
(* The getters, stated over the record of the last call.                   *)
(***************************************************************************)
GetOrOps ==
  {"GetOr", "GetOrBool", "GetOrInt", "GetOrUint", "GetOrInt64", "GetOrUint64",
   "GetOrDuration"}

\* the last call was a getter with a caller-supplied default
Fetched == last.op \in GetOrOps

\* the variable of the last getter call is set
IsSet == last.key \in DOMAIN env

\* the value of the set variable, parsed for the getter: the error and the value
ParsedFor(op, s) ==
  CASE op = "GetOr" -> [err |-> NoErr, val |-> [s |-> s]]
    [] op = "GetOrBool" -> [err |-> ParseBool(s).err, val |-> [b |-> ParseBool(s).b]]
    [] op = "GetOrInt" -> [err |-> ParseInt(s, 32).err, val |-> [n |-> ParseInt(s, 32).n]]
    [] op = "GetOrUint" -> [err |-> ParseUint(s, 32).err, val |-> [n |-> ParseUint(s, 32).n]]
    [] op = "GetOrInt64" -> [err |-> ParseInt(s, 64).err, val |-> [n |-> ParseInt(s, 64).n]]
    [] op = "GetOrUint64" -> [err |-> ParseUint(s, 64).err, val |-> [n |-> ParseUint(s, 64).n]]
    [] op = "GetOrDuration" -> [err |-> ParseDuration(s).err, val |-> [n |-> ParseDuration(s).n]]

\* the last getter call found its variable set to a string that parses
Parses == IsSet /\ ParsedFor(last.op, env[last.key]).err = NoErr

\* the caller-supplied default as a value: the duration getter takes it as a
\* string, GetOr as the string itself
DefaultOf ==
  IF last.op = "GetOrDuration" THEN ParsedFor("GetOrDuration", last.defaultValue)
  ELSE IF last.op = "GetOr" THEN [err |-> NoErr, val |-> [s |-> last.defaultValue]]
  ELSE [err |-> NoErr, val |-> last.defaultValue]

\* C22, as stated: a GetOr* getter returns the parsed value when the variable
\* is set and parses and the caller-supplied default in every other case,
\* and it never halts; GetOr returns the value of a set variable, the empty
\* string included.
C22_GetOrFallsBack ==
  Fetched =>
    /\ ~last.panic
    /\ Parses => last.val = ParsedFor(last.op, env[last.key]).val
    /\ ~Parses => last.val = DefaultOf.val

\* C22, amended: as stated, except that GetOrDuration, whose default is a
\* string, halts when it needs a default that is no duration.
C22_GetOrFallsBackOrHalts ==
  Fetched =>
    /\ last.panic <=> (~Parses /\ DefaultOf.err # NoErr)
    /\ Parses => last.val = ParsedFor(last.op, env[last.key]).val
    /\ (~Parses /\ DefaultOf.err = NoErr) => last.val = DefaultOf.val

\* GetOr has returned the empty value of a set variable, not its default
C22_Witness ==
  /\ last.op = "GetOr"
  /\ IsSet /\ env[last.key] = <<>>
  /\ last.defaultValue = <<"d">>
  /\ last.val = [s |-> <<>>]

(***************************************************************************)
(* The test helpers, stated over the record of the test.                   *)
(***************************************************************************)
\* one pass over the n closures, last made first
RECURSIVE Pass(_)
Pass(n) == IF n = 0 THEN <<>> ELSE <<n>> \o Pass(n - 1)

\* every cleanup has run once, or twice, in reverse order of registration,
\* and nothing but the helpers and their cleanups wrote the variable
CleanedUp ==
  /\ Len(last.cleanups) > 0
  /\ ~last.touched
  /\ \/ last.runs = Pass(Len(last.cleanups))
     \/ last.runs = Pass(Len(last.cleanups)) \o Pass(Len(last.cleanups))

\* C23: after SetForTest or UnsetForTest and its cleanup, run once or twice,
\* the variable is as it was before the call, present with its original
\* value or absent; so too for nested calls on one key whose cleanups run
\* in reverse order of registration.
C23_ForTestRestores == CleanedUp => env = last.before

\* two nested helper calls on a variable that existed, each cleanup called
\* by the test and run again at the end of the test
C23_Witness ==
  /\ CleanedUp
  /\ last.finished
  /\ Len(last.cleanups) = 2
  /\ last.cleanups[1].helper = "UnsetForTest"
  /\ last.cleanups[2].helper = "SetForTest"
  /\ last.runs = <<2, 1, 2, 1>>
  /\ <<"K">> \in DOMAIN last.before

(***************************************************************************)
(* The field paths of an aggregate error.                                  *)
(***************************************************************************)
RECURSIVE DeclPaths(_, _, _)
\* the field paths of a struct of type t with value v in declaration order,
\* nested structs and the structs behind non-nil pointers included
DeclPaths(t, v, path) ==
  LET RECURSIVE from(_)
      from(i) ==
        IF i > Len(t.fields) THEN <<>>
        ELSE LET f == t.fields[i]
                 x == v.f[i]
                 p == JoinPath(path, f.name)
             IN  <<p>>
                 \o (IF f.type.kind = "struct" THEN DeclPaths(f.type, x, p)
                     ELSE IF f.type.kind = "ptr" /\ ~IsNil(x) /\ f.type.elem.kind = "struct"
                     THEN DeclPaths(f.type.elem, x.to, p)
                     ELSE <<>>)
                 \o from(i + 1)
  IN  from(1)

\* the place of a path in a sequence of paths, 0 when it is not there
Place(paths, p) ==
  IF \E k \in 1..Len(paths) : paths[k] = p
  THEN CHOOSE k \in 1..Len(paths) : paths[k] = p /\ \A j \in 1..(k - 1) : paths[j] # p
  ELSE 0

\* C24: in every aggregate error a parse returns, the reported failures have
\* pairwise distinct field paths and come in field declaration order.
C24_DistinctPathsInOrder ==
  (Walked /\ last.err.kind = "ParseErrors") =>
    LET leaves == Leaves(last.err)
        decl   == DeclPaths(dst.type.elem, last.pre.to, <<>>)
    IN  /\ \A k \in 1..Len(leaves) : leaves[k].kind = "field"
        /\ \A j, k \in 1..Len(leaves) :
              j < k =>
                /\ leaves[j].path # leaves[k].path
                /\ (Place(decl, leaves[j].path) > 0 /\ Place(decl, leaves[k].path) > 0)
                     => Place(decl, leaves[j].path) < Place(decl, leaves[k].path)

(***************************************************************************)
(* The walker: which fields it recurses into and which it resolves.        *)
(***************************************************************************)
\* the struct type behind a field that holds a struct or points to one
StructOf(f) == IF f.type.kind = "ptr" THEN f.type.elem ELSE f.type

\* the field of the root holds a struct, or a non-nil pointer to one
HoldsStruct(f, x) ==
  \/ f.type.kind = "struct"
  \/ f.type.kind = "ptr" /\ ~IsNil(x) /\ f.type.elem.kind = "struct"

\* the last call looked the key up
LookedUp(key) == \E k \in 1..Len(last.looks) : last.looks[k] = key

\* the last call walked the fields of the struct held by the field: it
\* asked for the key of each of its mapped fields
RecursedInto(f) ==
  \A i \in 1..Len(StructOf(f).fields) :
    TagGet(StructOf(f).fields[i].tag, "env") # <<>>
      => LookedUp(last.prefix \o TagGet(StructOf(f).fields[i].tag, "env"))

\* the last call asked for a key of a mapped field of the struct held by
\* the field
TouchedInside(f) ==
  \E i \in 1..Len(StructOf(f).fields) :
    /\ TagGet(StructOf(f).fields[i].tag, "env") # <<>>
    /\ LookedUp(last.prefix \o TagGet(StructOf(f).fields[i].tag, "env"))

\* C25: the walker either recurses into a field or resolves it, never both:
\* it recurses into a struct field or a non-nil pointer-to-struct field
\* exactly when the field carries no env mapping; a mapped one is resolved
\* from its own key and not recursed into.
C25_RecurseXorResolve ==
  Walked =>
    \A i \in 1..Len(dst.type.elem.fields) :
      LET f == dst.type.elem.fields[i]
          x == last.pre.to.f[i]
          mapped == TagGet(f.tag, "env") # <<>>
      IN  (f.exported /\ HoldsStruct(f, x)) =>
            /\ ~mapped => RecursedInto(f)
            /\ mapped => /\ LookedUp(last.prefix \o TagGet(f.tag, "env"))
                          /\ ~TouchedInside(f)

(***************************************************************************)
(* The sinks, stated over the record of the last call.                     *)
(***************************************************************************)
\* the fields the last call has assigned, in order
Assigned == SelectSeq(last.events, LAMBDA e : e.sink = "Set")

\* the calls of a sink made by the last call, in order
SinkEvents(sink) == SelectSeq(last.events, LAMBDA e : e.sink = sink)

\* the assignments and the calls of the two sinks made by the last call
SetsAndSinks ==
  SelectSeq(last.events, LAMBDA e : e.sink \in {"Set", "OnEnvVarSet", "DebugLogger"})

\* the start of the debug line of a field: its key and its resolved string
DebugLine(field, value) ==
  <<"env: ">> \o (last.prefix \o TagGet(field.tag, "env")) \o <<" = ">> \o value
  \o <<" (field: ">>

StartsWith(s, t) == Len(s) >= Len(t) /\ SubSeq(s, 1, Len(t)) = t

\* the last call invoked the callback for the site's field
CalledBack(site) ==
  \E k \in 1..Len(last.events) :
    /\ last.events[k].sink = "OnEnvVarSet"
    /\ last.events[k].field = site.field

\* C26: during a parse OnEnvVarSet is invoked exactly once for each field
\* successfully set, after the assignment, with the field's descriptor and
\* its resolved string, in declaration order, and never for a field that
\* failed, was skipped or resolved to the empty string; a debug sink that is
\* set is invoked for the same fields, each time before the callback for
\* that field.
C26_SinksFollowSets ==
  Walked =>
    /\ \A k \in 1..Len(Assigned) :
         \E site \in ConvSites :
           /\ site.field = Assigned[k].field
           /\ Resolved(site) = Assigned[k].value /\ Resolved(site) # <<>>
           /\ Conversion(site).err = NoErr
           /\ Post(site) = Conversion(site).val
    /\ Len(SinkEvents("OnEnvVarSet")) = (IF OnEnvVarSet THEN Len(Assigned) ELSE 0)
    /\ Len(SinkEvents("DebugLogger")) = (IF DebugLogger THEN Len(Assigned) ELSE 0)
    /\ \A k \in 1..Len(Assigned) :
         /\ OnEnvVarSet =>
              /\ SinkEvents("OnEnvVarSet")[k].field = Assigned[k].field
              /\ SinkEvents("OnEnvVarSet")[k].value = Assigned[k].value
         /\ DebugLogger =>
              StartsWith(SinkEvents("DebugLogger")[k].msg,
                         DebugLine(Assigned[k].field, Assigned[k].value))
         /\ (OnEnvVarSet /\ DebugLogger) =>
              /\ SetsAndSinks[3 * k - 2].sink = "Set"
              /\ SetsAndSinks[3 * k - 1].sink = "DebugLogger"
              /\ SetsAndSinks[3 * k].sink = "OnEnvVarSet"
    /\ \A site \in ConvSites :
         (Fails(site) \/ ResolvesEmpty(site)) => ~CalledBack(site)

\* both sinks are set and the parse has set two fields
C26_Witness ==
  /\ Walked /\ ~last.panic
  /\ OnEnvVarSet /\ DebugLogger
  /\ Len(Assigned) = 2
  /\ Len(SetsAndSinks) = 6

(***************************************************************************)
(* The widths of the numeric fields.                                       *)
(***************************************************************************)
\* the number lies in the signed range of w bits: -2^(w-1) .. 2^(w-1) - 1
InSigned(n, w) ==
  IF n.neg THEN n.pow <= w - 1
  ELSE n.pow < w - 1 \/ (n.pow = w - 1 /\ n.less)

\* the number lies in the unsigned range of w bits: 0 .. 2^w - 1
InUnsigned(n, w) == ~n.neg /\ (n.pow < w \/ (n.pow = w /\ n.less))

\* the string is a number of the runs in signed, or unsigned, range
SignedText(s, w) == \E n \in Numbers : TextOf(n) = s /\ InSigned(n, w)

UnsignedText(s, w) == \E n \in Numbers : TextOf(n) = s /\ InUnsigned(n, w)

\* the string has duration syntax: a count of one digit and a unit
DurationText(s) == Len(s) = 2 /\ IsDigit(s[1]) /\ s[2] \in {"s", "m", "h"}

\* the string is acceptable for a field of the type
Acceptable(t, s) ==
  IF t = TInt THEN SignedText(s, 32)
  ELSE IF t = TUint THEN UnsignedText(s, 32)
  ELSE IF t = TInt64 THEN SignedText(s, 64)
  ELSE IF t = TUint64 THEN UnsignedText(s, 64)
  ELSE IF t = TDuration THEN DurationText(s)
  ELSE \A j \in 1..Len(Pieces(s, <<",">>)) : SignedText(Pieces(s, <<",">>)[j], 32)

\* the value of a field of the type converted from an acceptable string
ValueOf(t, s) ==
  IF t = TDuration
  THEN [n |-> IF s[2] = "s" THEN <<s[1]>> \o Zeros(9)
              ELSE IF s[2] = "m" THEN MulSmall(<<s[1]>>, 6, 0) \o Zeros(10)
              ELSE MulSmall(<<s[1]>>, 36, 0) \o Zeros(11)]
  ELSE IF t.kind = "slice"
  THEN [e |-> [j \in 1..Len(Pieces(s, <<",">>)) |-> [n |-> Pieces(s, <<",">>)[j]]]]
  ELSE [n |-> s]

\* the site is a numeric field whose resolved string reaches the converter
NumericSite(site) ==
  /\ site.field.type \in NumTypes
  /\ Mapped(site) /\ ~BadRequired(site) /\ ~MissingRequired(site)
  /\ Resolved(site) # <<>>

\* C27: an int field and each element of a []int field accept exactly the
\* base-10 strings of the signed 32-bit range, a uint field those of the
\* unsigned 32-bit range, int64 and uint64 fields those of the 64-bit
\* ranges; a time.Duration field is parsed with duration syntax, never as a
\* plain integer.
C27_NumericWidths ==
  Walked =>
    \A site \in LastSites :
      NumericSite(site) =>
        IF Acceptable(site.field.type, Resolved(site))
        THEN /\ last.err = NoErr
             /\ Post(site) = ValueOf(site.field.type, Resolved(site))
        ELSE /\ Reported(site)
             /\ Post(site) = site.pre

\* a uint field has been given 2^32 and has failed
C27_Witness ==
  /\ Walked
  /\ \E site \in LastSites :
       /\ NumericSite(site)
       /\ site.field.type = TUint
       /\ Resolved(site) = TextOf([neg |-> FALSE, pow |-> 32, less |-> FALSE])
       /\ Reported(site)

(***************************************************************************)
(* Fields that resolve to the empty string.                                *)
(***************************************************************************)
\* C28: a non-struct field whose resolved string is empty (its key absent
\* with no default, or present with the empty string, which suppresses the
\* default and satisfies the required flag) is never converted: it keeps its
\* prior value, produces no error and triggers no callback, whatever its
\* declared type.
C28_EmptyNeverConverted ==
  Walked =>
    \A site \in ConvSites :
      (site.field.type.kind # "struct" /\ ResolvesEmpty(site)) =>
        /\ Post(site) = site.pre
        /\ last.err.kind \in {"nil", "ParseErrors"}
        /\ ~Reported(site)
        /\ ~CalledBack(site)

(***************************************************************************)
(* The invalid-target error.                                               *)
(***************************************************************************)
\* C29: when the destination is a pointer to a struct and the prefix is
\* valid, a parse never returns ErrNotAStructPtr, whatever the types and
\* values of the fields, non-nil pointers to non-struct values included:
\* every failure is a field-level entry of a ParseErrors value.
C29_NoInvalidTargetFromFields ==
  (Walked /\ ~last.panic /\ last.err # NoErr) =>
    /\ last.err.kind # "ErrNotAStructPtr"
    /\ last.err.kind = "ParseErrors"
    /\ \A k \in 1..Len(Leaves(last.err)) : Leaves(last.err)[k].kind = "field"

(***************************************************************************)
(* Two parses in a row.                                                    *)
(***************************************************************************)
\* the step is a parse that follows a parse with the same arguments; no
\* step lies between them, so the environment and the sinks are the same
ParsedAgain ==
  /\ last.op \in ParseOps
  /\ ~last.panic
  /\ nops' = nops + 1
  /\ last'.op = last.op
  /\ last'.prefix = last.prefix
  /\ last'.funcMap = last.funcMap

\* a second run returns what the first returned and changes nothing
SecondRunSame == ParsedAgain => (last'.err = last.err /\ dst' = dst)

\* C30: Parse is idempotent: a second run on the same destination with the
\* same environment, prefix and custom parsers returns the same outcome and
\* leaves the destination as it was after the first run.
C30_Idempotent == [][SecondRunSame]_vars

=============================================================================
